---- MODULE Spec2Model ----
(***************************************************************************)
(* A model of the data collection and persistence pipeline of              *)
(* bitcoin-mining-analytics:                                               *)
(*   - the persistence store  (database/duckdb_manager.py, DuckDBManager), *)
(*   - the persist step of a run (scripts/bitcoin_blockchair_dashboard.py, *)
(*     save_to_database), run by two dashboards on the same store,         *)
(*   - the source collector  (src/data/collectors/blockchain_collector.py).*)
(*                                                                         *)
(* The specifications share the variables:                                 *)
(*   Spec         one manager, whole store operations one after another    *)
(*   SpecRuns     two managers; every save is split where the code splits  *)
(*                it: the read of max(id) and the INSERT                   *)
(*   SpecCollect  one collection cycle of the collector after another      *)
(*   SpecFree     one collection of the free APIs' collector               *)
(*   SpecAnalysis a dashboard's run_analysis: fetch, calculate, persist    *)
(*   SpecTiming   the time the requests of one collection take             *)
(***************************************************************************)
EXTENDS Integers, Sequences, FiniteSets, TLC

(***************************************************************************)
(* Bounds of the model.                                                    *)
(***************************************************************************)
\* successful writes and wipes of one behaviour of Spec
MaxOps == 3
\* runs of save_to_database started in one behaviour of SpecRuns
MaxRuns == 2
\* dashboards constructed and run in one behaviour of SpecAnalysis
MaxAnalyses == 1

(***************************************************************************)
(* Python values as they reach the store.  A dict entry is a tagged value: *)
(* a number, a non-numeric string, None, or the key is absent.             *)
(***************************************************************************)
Num(n) == [k |-> "num", v |-> n]
Str == [k |-> "str", v |-> 0]
None == [k |-> "none", v |-> 0]
Absent == [k |-> "absent", v |-> 0]

\* the number v * 10^e, for the magnitudes that do not fit the model's integers
Sci(v, e) == [k |-> "num", v |-> v, e |-> e]

Exponent(value) == IF "e" \in DOMAIN value THEN value.e ELSE 0

\* how a number is written on the wire: a JSON integer ("int"), a JSON float
\* ("float"), or a string of digits ("digits"), in decimal notation
\* ("decimal", as in "720000000000000000000.0") or in scientific notation
\* ("scientific", as in "7.2e20")
Forms == {"int", "float", "digits", "decimal", "scientific"}

Form(value) == IF "form" \in DOMAIN value THEN value.form ELSE "int"

\* the number v * 10^e written in the given form
Encoded(v, e, form) == [k |-> "num", v |-> v, e |-> e, form |-> form]

\* float('inf'), which json.loads yields for a literal such as 1e999
Inf == [k |-> "inf", v |-> 0]

\* an int or a float, as opposed to a string that spells one
IsNumber(value) == value.k = "num" /\ Form(value) \in {"int", "float"}

(***************************************************************************)
(* Arithmetic.  A Python float is modelled by the exact rational it stands *)
(* for: the fraction v / d in lowest terms, d left out when it is 1.       *)
(***************************************************************************)
Abs(n) == IF n < 0 THEN -n ELSE n

RECURSIVE GCD(_, _)
GCD(a, b) == IF b = 0 THEN a ELSE GCD(b, a % b)

Denominator(value) == IF "d" \in DOMAIN value THEN value.d ELSE 1

\* the fraction n / d, for d > 0
Rat(n, d) ==
    LET g == GCD(Abs(n), d)
    IN  IF d \div g = 1 THEN [k |-> "num", v |-> n \div g]
        ELSE [k |-> "num", v |-> n \div g, d |-> d \div g]

\* the fraction a number of the form v * 10^e stands for
Fraction(value) ==
    IF Exponent(value) >= 0
      THEN Rat(value.v * 10^Exponent(value), Denominator(value))
      ELSE Rat(value.v, Denominator(value) * 10^(-Exponent(value)))

Mul(a, b) ==
    LET g == GCD(Abs(a.v), Denominator(b))
        h == GCD(Abs(b.v), Denominator(a))
    IN  Rat((a.v \div g) * (b.v \div h), (Denominator(a) \div h) * (Denominator(b) \div g))

\* a / b for b > 0
Div(a, b) == Mul(a, Rat(Denominator(b), b.v))

Sub(a, b) ==
    Rat(a.v * Denominator(b) - b.v * Denominator(a), Denominator(a) * Denominator(b))

\* dict.get(key, default)
DictGet(value, default) == IF value.k = "absent" THEN default ELSE value

\* safe_float(value, default=0.0): float(value), the default for None and
\* for what float() rejects (ValueError, TypeError)
safe_float(value) ==
    IF value.k \in {"num", "inf"} THEN value ELSE Num(0)

\* DuckDB binding a Python parameter to an INTEGER/BIGINT column: a number and
\* None (NULL) are accepted, a non-numeric string is a conversion error
CoercesToInteger(value) == value.k \in {"num", "none"}

(***************************************************************************)
(* The store: three tables in one file.                                    *)
(***************************************************************************)
Tables == {"bitcoin_network_metrics", "profitability_analysis", "bitcoin_snapshots"}

\* the failure value of save_network_metrics: Python False, which is the int 0
NoId == 0

VARIABLES
    bitcoin_network_metrics,   \* set of rows
    profitability_analysis,    \* set of rows
    bitcoin_snapshots,         \* set of rows
    now,                       \* the wall clock read by datetime.now()
    ret,                       \* what the last store operation returned
    assigned,                  \* history: per table, the ids of the successful saves, in order
    cleared,                   \* history: per table, Len(assigned) at the last clear_database
    ops,                       \* history: number of successful writes and wipes
    pc,                        \* per dashboard: where its save_to_database stands
    run,                       \* per dashboard: the locals of its save_to_database
    runs,                      \* history: number of runs started
    data_sources,              \* collector: the names of its DataSourceConfig map
    phase,                     \* collector: "none", "ready", "collecting", "done"
    task,                      \* collector: per fetch task its position and locals
    collected_data,            \* collector: the bundle of the last collection
    watch,                     \* history: the source whose responses are recorded
    recorded,                  \* history: the responses to the watched source's requests
    primary_metrics,           \* what the latest call of get_primary_metrics on the
                               \* collector returned, since its latest collection began
    previous,                  \* history: the watched source in the reference collection before
    free_tasks,                \* free collector: per component its task and what it got
    combined_data,             \* free collector: what collect_all_free_data returned
    dashboard,                 \* a dashboard and the locals of its run_analysis
    timing                     \* a collection and the time its requests took

storeVars == <<bitcoin_network_metrics, profitability_analysis, bitcoin_snapshots,
               now, ret, assigned, cleared, ops>>

runVars == <<pc, run, runs>>

collectVars ==
    <<data_sources, phase, task, collected_data, watch, recorded, previous, primary_metrics>>

freeVars == <<free_tasks, combined_data>>

analysisVars == <<dashboard>>

timingVars == <<timing>>

vars == <<storeVars, runVars, collectVars, freeVars, analysisVars, timingVars>>

Rows(table) ==
    CASE table = "bitcoin_network_metrics" -> bitcoin_network_metrics
      [] table = "profitability_analysis" -> profitability_analysis
      [] table = "bitcoin_snapshots" -> bitcoin_snapshots

Ids(table) == {r.id : r \in Rows(table)}

SetMax(S) == CHOOSE m \in S : \A x \in S : x <= m
SetMin(S) == CHOOSE m \in S : \A x \in S : m <= x

(***************************************************************************)
(* Inputs of the store operations.                                         *)
(***************************************************************************)
DataSources == {"modular", "direct"}

\* the dicts handed to save_network_metrics: the sample of test_database_fix,
\* one whose blocks_24h is not a number, one with no blocks_24h and a null price
NetworkDict(blocks_24h, market_price_usd) ==
    [blocks_24h |-> blocks_24h, market_price_usd |-> market_price_usd,
     hashrate_24h |-> Absent]

\* the dict with a raw hash rate in H/s
WithHashrate(data, hashrate_24h) == [data EXCEPT !.hashrate_24h = hashrate_24h]

NetworkData ==
    {WithHashrate(NetworkDict(Num(144), Num(65000)), Sci(6, 20)),
     NetworkDict(Str, Num(65000)),
     NetworkDict(Absent, None)}

\* the dict and the network_metrics_id handed to save_profitability_analysis
ProfitabilityDict(daily_profit_usd) ==
    [daily_profit_usd |-> daily_profit_usd, status |-> "absent",
     daily_revenue_usd |-> Absent, daily_energy_cost_usd |-> Absent,
     profit_margin_percentage |-> Absent, roi_days |-> Absent]

\* the dict with a status of the caller's own
WithStatus(profitability, status) == [profitability EXCEPT !.status = status]

\* a profit, a loss the caller calls a profit, a profit that is not a number,
\* and a network_metrics_id that is not a number
ProfitabilityInputs ==
    {<<ProfitabilityDict(Num(9)), Num(1)>>,
     <<WithStatus(ProfitabilityDict(Num(-5)), "PROFIT"), Num(NoId)>>,
     <<WithStatus(ProfitabilityDict(Str), "PROFIT"), Num(1)>>,
     <<ProfitabilityDict(Absent), Str>>}

\* the blob handed to save_comprehensive_snapshot
Blob(has_metadata, has_success_sources, success_sources, network_metrics_id) ==
    [has_metadata |-> has_metadata, has_success_sources |-> has_success_sources,
     success_sources |-> success_sources, network_metrics_id |-> network_metrics_id]

SnapshotData ==
    {Blob(FALSE, FALSE, <<>>, NoId), Blob(TRUE, TRUE, <<>>, NoId),
     Blob(TRUE, TRUE, <<"modular">>, 1)}

\* get_latest_metrics(limit: int = 10)
DefaultLimit == 10

\* the limits handed to get_latest_metrics
Limits == {0, 1, DefaultLimit}

\* where a store operation meets an error of the store, if anywhere: on
\* opening its connection, in the query of _get_next_id, in its own statement
Faults == {"none", "connect", "next_id", "execute"}

(***************************************************************************)
(* What a store operation returns.                                         *)
(***************************************************************************)
NenhumDado == Str

NoInfo == [empty |-> TRUE, network |-> 0, profitability |-> 0, snapshots |-> 0,
           oldest_record |-> NenhumDado, newest_record |-> NenhumDado, total_records |-> 0]

Ret(op, raised, id, ok, rows, info) ==
    [op |-> op, raised |-> raised, id |-> id, ok |-> ok, rows |-> rows, info |-> info]

(***************************************************************************)
(* DuckDBManager                                                           *)
(***************************************************************************)
\* mutant of get_next_id: COALESCE(MAX(id), 1) + 1, so an empty table starts at 2
get_next_id_coalesce_one(ids, queryFails) ==
    IF queryFails THEN 1
    ELSE IF ids = {} THEN 2 ELSE SetMax(ids) + 1

\* _get_next_id: SELECT COALESCE(MAX(id), 0) + 1; 1 when the query raises
get_next_id(ids, queryFails) ==
    IF queryFails THEN 1
    ELSE IF ids = {} THEN 1 ELSE SetMax(ids) + 1

\* mutant of InsertError: the id column is no PRIMARY KEY
InsertErrorNoPrimaryKey(ids, id, coerces, execFails) ==
    IF ~coerces THEN "ConversionException"
    ELSE IF execFails THEN "IOException"
    ELSE "none"

\* the exception of conn.execute(INSERT ...) on a table with PRIMARY KEY id,
\* "none" when the row is inserted
InsertError(ids, id, coerces, execFails) ==
    IF ~coerces THEN "ConversionException"
    ELSE IF id \in ids THEN "ConstraintException"
    ELSE IF execFails THEN "IOException"
    ELSE "none"

\* a table that keeps the record just written and drops the ones before it
InsertKeepingLatest(rows, row) == {row}

\* the table after conn.execute(INSERT INTO ... VALUES ...) has inserted a row
Insert(rows, row) == rows \cup {row}

\* except Exception as e: every exception raised in the try block of a save
\* is caught by the save itself
SaveCatches(exception) == TRUE

\* the exception that leaves the save
Escapes(exception) == exception # "none" /\ ~SaveCatches(exception)

\* hashrate_hs / 1e18
Exa == 18

hashrate_ehs(data) ==
    LET hashrate_hs == safe_float(DictGet(data.hashrate_24h, Num(0)))
    IN  IF hashrate_hs.k = "inf" THEN Inf
        ELSE Sci(hashrate_hs.v, Exponent(hashrate_hs) - Exa)

NetworkRow(id, ts, source, data) ==
    [id |-> id, timestamp |-> ts, data_source |-> source,
     blocks_24h |-> DictGet(data.blocks_24h, Num(0)),
     hashrate_24h_ehs |-> hashrate_ehs(data),
     market_price_usd |-> safe_float(DictGet(data.market_price_usd, Num(0))),
     raw_data |-> data]

NetworkCoerces(data) == CoercesToInteger(DictGet(data.blocks_24h, Num(0)))

\* mutant of NetworkResult: the except branch returns next_id as well
NetworkResultNextId(inserted, next_id) == next_id

\* what save_network_metrics returns: next_id, False from the except branch
NetworkResult(inserted, next_id) == IF inserted THEN next_id ELSE NoId

Record(table, id) == [assigned EXCEPT ![table] = Append(@, id)]

save_network_metrics(data, source, fault) ==
    LET next_id == get_next_id(Ids("bitcoin_network_metrics"), fault = "next_id")
        exception == IF fault = "connect" THEN "IOException"
                     ELSE InsertError(Ids("bitcoin_network_metrics"), next_id,
                                      NetworkCoerces(data), fault = "execute")
        inserted == exception = "none"
    IN  /\ inserted => ops < MaxOps
        /\ ret' = Ret("save_network_metrics", Escapes(exception),
                      NetworkResult(inserted, next_id), inserted, <<>>, NoInfo)
        /\ IF inserted
           THEN /\ bitcoin_network_metrics' =
                     Insert(bitcoin_network_metrics, NetworkRow(next_id, now, source, data))
                /\ assigned' = Record("bitcoin_network_metrics", next_id)
                /\ ops' = ops + 1
           ELSE UNCHANGED <<bitcoin_network_metrics, assigned, ops>>
        /\ UNCHANGED <<profitability_analysis, bitcoin_snapshots, now, cleared>>

\* a status that counts a profit of zero as a profit
StatusNonNegative(daily_profit) == IF daily_profit.v >= 0 THEN "PROFIT" ELSE "LOSS"

\* status = "PROFIT" if daily_profit > 0 else "LOSS"
Status(daily_profit) == IF daily_profit.v > 0 THEN "PROFIT" ELSE "LOSS"

\* a row that refers to the newest network-metrics record, not to the given one
ProfitabilityRowLatest(id, ts, profitability, network_metrics_id) ==
    LET daily_profit == safe_float(DictGet(profitability.daily_profit_usd, Num(0)))
    IN  [id |-> id, timestamp |-> ts,
         network_metrics_id |-> Num(SetMax(Ids("bitcoin_network_metrics") \cup {NoId})),
         daily_revenue_usd |-> safe_float(DictGet(profitability.daily_revenue_usd, Num(0))),
         daily_energy_cost_usd |->
             safe_float(DictGet(profitability.daily_energy_cost_usd, Num(0))),
         daily_profit_usd |-> daily_profit,
         profit_margin_percentage |->
             safe_float(DictGet(profitability.profit_margin_percentage, Num(0))),
         roi_days |-> safe_float(DictGet(profitability.roi_days, Num(0))),
         status |-> Status(daily_profit)]

ProfitabilityRow(id, ts, profitability, network_metrics_id) ==
    LET daily_profit == safe_float(DictGet(profitability.daily_profit_usd, Num(0)))
    IN  [id |-> id, timestamp |-> ts, network_metrics_id |-> network_metrics_id,
         daily_revenue_usd |-> safe_float(DictGet(profitability.daily_revenue_usd, Num(0))),
         daily_energy_cost_usd |->
             safe_float(DictGet(profitability.daily_energy_cost_usd, Num(0))),
         daily_profit_usd |-> daily_profit,
         profit_margin_percentage |->
             safe_float(DictGet(profitability.profit_margin_percentage, Num(0))),
         roi_days |-> safe_float(DictGet(profitability.roi_days, Num(0))),
         status |-> Status(daily_profit)]

save_profitability_analysis(profitability, network_metrics_id, fault) ==
    LET next_id == get_next_id(Ids("profitability_analysis"), fault = "next_id")
        exception == IF fault = "connect" THEN "IOException"
                     ELSE InsertError(Ids("profitability_analysis"), next_id,
                                      CoercesToInteger(network_metrics_id),
                                      fault = "execute")
        inserted == exception = "none"
    IN  /\ inserted => ops < MaxOps
        /\ ret' = Ret("save_profitability_analysis", Escapes(exception),
                      NoId, inserted, <<>>, NoInfo)
        /\ IF inserted
           THEN /\ profitability_analysis' =
                     Insert(profitability_analysis,
                            ProfitabilityRow(next_id, now, profitability, network_metrics_id))
                /\ assigned' = Record("profitability_analysis", next_id)
                /\ ops' = ops + 1
           ELSE UNCHANGED <<profitability_analysis, assigned, ops>>
        /\ UNCHANGED <<bitcoin_network_metrics, bitcoin_snapshots, now, cleared>>

\* comprehensive_data.get('metadata', {}).get('success_sources', ['unknown'])[0]
\* raises IndexError on an empty list
SnapshotSourceRaises(blob) ==
    blob.has_metadata /\ blob.has_success_sources /\ blob.success_sources = <<>>

SnapshotSource(blob) ==
    IF blob.has_metadata /\ blob.has_success_sources
    THEN Head(blob.success_sources) ELSE "unknown"

SnapshotRow(id, ts, snapshot_type, blob) ==
    [id |-> id, timestamp |-> ts, snapshot_type |-> snapshot_type,
     data_source |-> SnapshotSource(blob), snapshot_data |-> blob]

save_comprehensive_snapshot(blob, snapshot_type, fault) ==
    LET next_id == get_next_id(Ids("bitcoin_snapshots"), fault = "next_id")
        exception == IF fault = "connect" THEN "IOException"
                     ELSE IF SnapshotSourceRaises(blob) THEN "IndexError"
                     ELSE InsertError(Ids("bitcoin_snapshots"), next_id, TRUE,
                                      fault = "execute")
        inserted == exception = "none"
    IN  /\ inserted => ops < MaxOps
        /\ ret' = Ret("save_comprehensive_snapshot", Escapes(exception),
                      NoId, inserted, <<>>, NoInfo)
        /\ IF inserted
           THEN /\ bitcoin_snapshots' =
                     Insert(bitcoin_snapshots, SnapshotRow(next_id, now, snapshot_type, blob))
                /\ assigned' = Record("bitcoin_snapshots", next_id)
                /\ ops' = ops + 1
           ELSE UNCHANGED <<bitcoin_snapshots, assigned, ops>>
        /\ UNCHANGED <<bitcoin_network_metrics, profitability_analysis, now, cleared>>

\* SELECT MAX(id): None on an empty table and on an error
get_latest_network_metrics_id(connFails) ==
    /\ ret' = IF connFails \/ bitcoin_network_metrics = {}
              THEN Ret("get_latest_network_metrics_id", FALSE, NoId, FALSE, <<>>, NoInfo)
              ELSE Ret("get_latest_network_metrics_id", FALSE,
                       SetMax(Ids("bitcoin_network_metrics")), TRUE, <<>>, NoInfo)
    /\ UNCHANGED <<bitcoin_network_metrics, profitability_analysis, bitcoin_snapshots,
                   now, assigned, cleared, ops>>

\* the flat field-named record get_latest_metrics exposes for a row
Metric(row) ==
    [id |-> row.id, timestamp |-> row.timestamp, source |-> row.data_source,
     blocks_24h |-> row.blocks_24h, hashrate_ehs |-> row.hashrate_24h_ehs,
     price_usd |-> row.market_price_usd]

Min(a, b) == IF a <= b THEN a ELSE b

\* the answers of ORDER BY timestamp ASC LIMIT ?
LatestRowsAscending(rows, limit) ==
    LET n == Min(limit, Cardinality(rows))
    IN  {s \in [1..n -> rows] :
            /\ \A i, j \in 1..n : i < j =>
                   /\ s[i] # s[j]
                   /\ s[i].timestamp <= s[j].timestamp
            /\ \A r \in rows : (\A i \in 1..n : s[i] # r) =>
                   \A i \in 1..n : s[i].timestamp <= r.timestamp}

\* the answers of ORDER BY timestamp DESC LIMIT ?: rows of equal timestamp
\* come in either order
RECURSIVE LatestRows(_, _)
LatestRows(rows, limit) ==
    IF limit = 0 \/ rows = {} THEN {<<>>}
    ELSE LET newest == {r \in rows : \A q \in rows : r.timestamp >= q.timestamp}
         IN UNION {{<<r>> \o s : s \in LatestRows(rows \ {r}, limit - 1)} : r \in newest}

get_latest_metrics(limit, connFails) ==
    /\ \E s \in LatestRows(bitcoin_network_metrics, limit) :
          ret' = IF connFails
                 THEN Ret("get_latest_metrics", FALSE, NoId, FALSE, <<>>, NoInfo)
                 ELSE Ret("get_latest_metrics", FALSE, NoId, TRUE,
                          [i \in 1..Len(s) |-> Metric(s[i])], NoInfo)
    /\ UNCHANGED <<bitcoin_network_metrics, profitability_analysis, bitcoin_snapshots,
                   now, assigned, cleared, ops>>

\* a summary that runs MIN and MAX on the empty table too: SQL NULL, Python None
DatabaseInfoNullStamps ==
    LET stamps == {r.timestamp : r \in bitcoin_network_metrics}
        counts == <<Cardinality(bitcoin_network_metrics),
                    Cardinality(profitability_analysis),
                    Cardinality(bitcoin_snapshots)>>
    IN  [empty |-> FALSE,
         network |-> counts[1], profitability |-> counts[2], snapshots |-> counts[3],
         oldest_record |-> IF counts[1] > 0 THEN Num(SetMin(stamps)) ELSE None,
         newest_record |-> IF counts[1] > 0 THEN Num(SetMax(stamps)) ELSE None,
         total_records |-> counts[1] + counts[2] + counts[3]]

DatabaseInfo ==
    LET stamps == {r.timestamp : r \in bitcoin_network_metrics}
        counts == <<Cardinality(bitcoin_network_metrics),
                    Cardinality(profitability_analysis),
                    Cardinality(bitcoin_snapshots)>>
    IN  [empty |-> FALSE,
         network |-> counts[1], profitability |-> counts[2], snapshots |-> counts[3],
         oldest_record |-> IF counts[1] > 0 THEN Num(SetMin(stamps)) ELSE NenhumDado,
         newest_record |-> IF counts[1] > 0 THEN Num(SetMax(stamps)) ELSE NenhumDado,
         total_records |-> counts[1] + counts[2] + counts[3]]

get_database_info(connFails) ==
    /\ ret' = IF connFails
              THEN Ret("get_database_info", FALSE, NoId, FALSE, <<>>, NoInfo)
              ELSE Ret("get_database_info", FALSE, NoId, TRUE, <<>>, DatabaseInfo)
    /\ UNCHANGED <<bitcoin_network_metrics, profitability_analysis, bitcoin_snapshots,
                   now, assigned, cleared, ops>>

\* clear_database: DELETE FROM snapshots, profitability, network metrics, in
\* this order, each statement committed on its own; an error ends the loop, so
\* `done` of the three statements have run
clear_database(done) ==
    /\ ops < MaxOps
    /\ bitcoin_snapshots' = IF done >= 1 THEN {} ELSE bitcoin_snapshots
    /\ profitability_analysis' = IF done >= 2 THEN {} ELSE profitability_analysis
    /\ bitcoin_network_metrics' = IF done >= 3 THEN {} ELSE bitcoin_network_metrics
    /\ cleared' = [t \in Tables |->
                     IF \/ t = "bitcoin_snapshots" /\ done >= 1
                        \/ t = "profitability_analysis" /\ done >= 2
                        \/ t = "bitcoin_network_metrics" /\ done >= 3
                     THEN Len(assigned[t]) ELSE cleared[t]]
    /\ ops' = IF done > 0 THEN ops + 1 ELSE ops
    /\ ret' = Ret("clear_database", FALSE, NoId, done = 3, <<>>, NoInfo)
    /\ UNCHANGED <<now, assigned>>

\* the wall clock advances between two operations.  The store reads back the
\* timestamps of bitcoin_network_metrics only (ORDER BY, MIN, MAX), and readings
\* are told apart only by their order against these, so the clock is advanced
\* only once a network-metrics record carries the present reading.
Tick ==
    /\ \E r \in bitcoin_network_metrics : r.timestamp = now
    /\ now' = now + 1
    /\ UNCHANGED <<bitcoin_network_metrics, profitability_analysis, bitcoin_snapshots,
                   ret, assigned, cleared, ops>>

StoreInit ==
    /\ bitcoin_network_metrics = {}
    /\ profitability_analysis = {}
    /\ bitcoin_snapshots = {}
    /\ now = 0
    /\ ret = Ret("init", FALSE, NoId, TRUE, <<>>, NoInfo)
    /\ assigned = [t \in Tables |-> <<>>]
    /\ cleared = [t \in Tables |-> 0]
    /\ ops = 0

\* the dashboards that share the store file; the first runs the modular
\* collector, the second the direct request
Dashboards == {1, 2}

NoRun ==
    [data |-> NetworkDict(Absent, Absent), profitability |-> FALSE,
     next_id |-> 0, network_id |-> NoId, fault |-> "none", db_success |-> FALSE,
     unclosed |-> 0,
     written_network |-> {}, written_profitability |-> {}, written_snapshots |-> {}]

RunsInit ==
    /\ pc = [d \in Dashboards |-> "idle"]
    /\ run = [d \in Dashboards |-> NoRun]
    /\ runs = 0

(***************************************************************************)
(* The source collector (BlockchainCollector).  A JSON object is modelled  *)
(* by the set of its keys; the values under the keys, and the timestamps   *)
(* the collector writes into a bundle, are not modelled.                   *)
(***************************************************************************)
\* the fetch tasks of collect_from_all_sources, in the order of its tasks dict
TaskNames == <<"blockchair", "mempool_space", "blockchain_com">>

Tasks == {TaskNames[i] : i \in DOMAIN TaskNames}

\* get_default_config: the three sources used without a readable file
DefaultSources == {"blockchair", "mempool_space", "blockchain_com"}

\* config/data_sources.yaml as the constructor finds it: whether the file
\* exists, whether yaml.safe_load yields a mapping, and the names under its
\* blockchain_data section (none when the mapping has no such section)
ConfigFile(exists, mapping, blockchain_data) ==
    [exists |-> exists, mapping |-> mapping, blockchain_data |-> blockchain_data]

ConfigFiles ==
    {ConfigFile(FALSE, FALSE, {}),
     ConfigFile(TRUE, FALSE, {}),
     ConfigFile(TRUE, TRUE, {}),
     ConfigFile(TRUE, TRUE, {"blockchair"}),
     ConfigFile(TRUE, TRUE, DefaultSources \cup {"coinmetrics"}),
     ConfigFile(TRUE, TRUE, {"blockstream"})}

\* load_data_sources_config: the default map when the file is missing or
\* reading it raises, else one entry per name of the blockchain_data section
load_data_sources_config(file) ==
    IF ~file.exists THEN DefaultSources
    ELSE IF ~file.mapping THEN DefaultSources
    ELSE file.blockchain_data

\* Python None and a dict, as a fetch returns them: the keys of the dict and
\* those of them whose value is JSON null
NoData == [null |-> TRUE, keys |-> {}, nulls |-> {}]
Dict(keys) == [null |-> FALSE, keys |-> keys, nulls |-> {}]

\* "if data:" is false for None and for an empty dict
NonEmpty(data) == ~data.null /\ data.keys # {}

\* what the network answers to one request: the outcome, the keys of the JSON
\* body, the keys of the object under its "data" key and those of them whose
\* value is null
Response(status, keys, data) ==
    [status |-> status, keys |-> keys, data |-> data, nulls |-> {}]

WithNulls(response, nulls) == [response EXCEPT !.nulls = nulls]

FailureKinds == {"timeout", "status_500", "json_decode_error", "exception"}

Failures == {Response(kind, {}, {}) : kind \in FailureKinds}

CriticalFields == {"blocks", "transactions", "difficulty", "hashrate_24h"}

FullStats == CriticalFields \cup {"market_price_usd"}

\* answers of blockchair /stats: complete, with the average fee in USD and a
\* null node count; one critical field short; an empty "data" object; a body
\* without "data"; a failure
StatsResponses ==
    {WithNulls(Response("ok", {"data", "context"},
                        FullStats \cup {"nodes", "average_transaction_fee_usd_24h"}),
               {"nodes"}),
     Response("ok", {"data", "context"}, FullStats \ {"hashrate_24h"}),
     Response("ok", {"data", "context"}, {}),
     Response("ok", {"context"}, {})} \cup Failures

\* answers of every other endpoint: a non-empty body or a failure
Responses == {Response("ok", {"data"}, {})} \cup Failures

\* make_api_request: the parsed body on status 200, None on a timeout, on
\* another status, on a JSON decode error and on any other exception
make_api_request(response) ==
    IF response.status = "ok"
      THEN [null |-> FALSE, keys |-> response.keys, data |-> response.data,
            nulls |-> response.nulls]
      ELSE [null |-> TRUE, keys |-> {}, data |-> {}, nulls |-> {}]

NoJson == make_api_request(Response("exception", {}, {}))

\* a fetch task: not started, before its first or second request, or done
NoTask == [pc |-> "init", first |-> NoJson, result |-> NoData]

\* a per-source entry of the bundle; None is the entry with null = TRUE
NoValidation ==
    [source |-> "", is_valid |-> FALSE, fields_count |-> 0,
     missing_critical_fields |-> {}, warnings |-> <<>>]

NullEntry == [null |-> TRUE, data |-> NoData, validation |-> NoValidation, data_hash |-> NoData]

\* self.collected_data = {} of the constructor
NoBundle ==
    [returned |-> FALSE,
     metadata |-> [success_sources |-> <<>>, failed_sources |-> <<>>,
                   total_sources_attempted |-> 0, total_sources_successful |-> 0],
     sources |-> [name \in {} |-> NullEntry],
     primary_data |-> Dict({})]

\* no call of get_primary_metrics yet
NoMetrics == [called |-> FALSE, metrics |-> Dict({})]

NoPrevious ==
    [valid |-> FALSE, configured |-> FALSE, responses |-> <<>>, entry |-> NullEntry,
     success |-> FALSE, failed |-> FALSE]

CollectorInit ==
    /\ data_sources = {}
    /\ phase = "none"
    /\ task = [name \in Tasks |-> NoTask]
    /\ collected_data = NoBundle
    /\ watch = "blockchair"
    /\ recorded = <<>>
    /\ previous = NoPrevious
    /\ primary_metrics = NoMetrics

(***************************************************************************)
(* The collector of the free APIs (FreeAPICollector).  A component of its  *)
(* record is modelled by its tags and by where its values came from.       *)
(***************************************************************************)
\* the components collect_all_free_data fetches over the network, with the
\* source each live answer is tagged with
Fetched == {"price_data", "blockchain_stats", "network_difficulty", "mempool_data"}

Components == Fetched \cup {"mining_pools"}

LiveSource(component) ==
    CASE component = "price_data" -> "coingecko"
      [] component = "mempool_data" -> "mempool_space"
      [] OTHER -> "blockchair"

Component(source, realtime, values) ==
    [empty |-> FALSE, source |-> source, realtime |-> realtime, values |-> values]

NoComponent == [empty |-> TRUE, source |-> "", realtime |-> FALSE, values |-> ""]

\* a task of the gather: not started, awaiting its answer, done
NoFreeTask == [pc |-> "init", status |-> "", result |-> NoComponent]

\* the statuses of the one request of a component
FreeStatuses == {"ok"} \cup FailureKinds

FreeInit ==
    /\ free_tasks = [component \in Components |-> NoFreeTask]
    /\ combined_data = [component \in Components |-> NoComponent]

(***************************************************************************)
(* The dashboard (BitcoinBlockchairDashboard): the calculations of a run   *)
(* and the dicts they work on.                                             *)
(***************************************************************************)
\* the payload a fetch hands to run_analysis, with the fields the
\* calculations read
Payload(hashrate_24h, market_price_usd, blocks_24h) ==
    WithHashrate(NetworkDict(blocks_24h, market_price_usd), hashrate_24h)

\* 500 EH/s at 65000 USD and 144 blocks; 720 EH/s in every wire encoding; a
\* hash rate that is zero, missing, null, not a number or infinite; a null
\* price and a price of zero
Payloads ==
    {Payload(Encoded(5, 20, "int"), Num(65000), Num(144)),
     Payload(Encoded(5, 20, "int"), None, Num(144)),
     Payload(Encoded(5, 20, "digits"), Num(0), Num(100)),
     Payload(Num(0), Num(65000), Num(144)),
     Payload(Absent, Num(65000), Num(144)),
     Payload(None, Num(65000), Num(144)),
     Payload(Str, Num(65000), Num(144)),
     Payload(Inf, Num(65000), Num(144))} \cup
    {Payload(Encoded(72, 19, form), Num(30000), Absent) : form \in Forms}

\* {} as calculate_mining_metrics returns it
NoMiningMetrics ==
    [empty |-> TRUE, hashrate_ehs |-> Num(0), daily_blocks |-> Num(0),
     daily_network_revenue_usd |-> Num(0), hash_price_usd_per_th_per_day |-> Num(0)]

\* {} as analyze_profitability returns it
NoProfitability == [empty |-> TRUE, dict |-> ProfitabilityDict(Absent)]

\* a dashboard that has not been constructed; attempted, succeeded and faults
\* are history: the writes save_to_database called, those that returned
\* success, and those in which the store raised an error of its own
NoDashboard ==
    [pc |-> "none", use_modular_collector |-> FALSE, path |-> "none",
     data |-> Payload(Absent, Absent, Absent),
     mining_metrics |-> NoMiningMetrics, profitability |-> NoProfitability,
     network_id |-> NoId, attempted |-> {}, succeeded |-> {}, faults |-> {},
     db_success |-> FALSE, analyses |-> 0]

AnalysisInit == dashboard = NoDashboard

\* the per-source timeouts a configuration can set, in units of time
Timeouts == {1, 2}

\* no collection started: no request sent, no time spent
NoTiming ==
    [pc |-> "none",
     timeout |-> [name \in Tasks |-> 1],
     stage |-> [name \in Tasks |-> "first"],
     elapsed |-> [name \in Tasks |-> 0],
     returned_after |-> 0]

TimingInit == timing = NoTiming

Init == StoreInit /\ RunsInit /\ CollectorInit /\ FreeInit /\ AnalysisInit /\ TimingInit

Next ==
    \/ \E data \in NetworkData, fault \in Faults :
          save_network_metrics(data, "test_source", fault) /\ UNCHANGED <<runVars, collectVars, freeVars, analysisVars, timingVars>>
    \/ \E input \in ProfitabilityInputs, fault \in Faults :
          save_profitability_analysis(input[1], input[2], fault) /\ UNCHANGED <<runVars, collectVars, freeVars, analysisVars, timingVars>>
    \/ \E blob \in SnapshotData, fault \in Faults :
          save_comprehensive_snapshot(blob, "full", fault) /\ UNCHANGED <<runVars, collectVars, freeVars, analysisVars, timingVars>>
    \/ \E connFails \in BOOLEAN :
          get_latest_network_metrics_id(connFails) /\ UNCHANGED <<runVars, collectVars, freeVars, analysisVars, timingVars>>
    \/ \E limit \in Limits, connFails \in BOOLEAN :
          get_latest_metrics(limit, connFails) /\ UNCHANGED <<runVars, collectVars, freeVars, analysisVars, timingVars>>
    \/ \E connFails \in BOOLEAN :
          get_database_info(connFails) /\ UNCHANGED <<runVars, collectVars, freeVars, analysisVars, timingVars>>
    \/ \E done \in 0..3 :
          clear_database(done) /\ UNCHANGED <<runVars, collectVars, freeVars, analysisVars, timingVars>>
    \/ Tick /\ UNCHANGED <<runVars, collectVars, freeVars, analysisVars, timingVars>>

Spec == Init /\ [][Next]_vars

(***************************************************************************)
(* Properties of the store under Spec.                                     *)
(***************************************************************************)
\* the ids a table's successful saves were given since the table was last wiped
SinceWipe(table) == SubSeq(assigned[table], cleared[table] + 1, Len(assigned[table]))

StrictlyIncreasing(ids) == \A i, j \in 1..Len(ids) : i < j => ids[i] < ids[j]

SaveOps == {"save_network_metrics", "save_profitability_analysis",
            "save_comprehensive_snapshot"}

\* C1: from an empty network-metrics table on, the k-th save_network_metrics
\* that returns an id returns k, whatever reads (and failed saves) come between:
\* the ids returned are 1, 2, ..., N in call order.
C1_SequentialIds ==
    LET ids == SinceWipe("bitcoin_network_metrics")
    IN  /\ \A i \in 1..Len(ids) : ids[i] = i
        /\ ret.op = "save_network_metrics" /\ ret.ok => ret.id = Len(ids)

\* three saves were given ids and a read has just returned two of the records
C1_Witness ==
    /\ Len(SinceWipe("bitcoin_network_metrics")) = 3
    /\ ret.op = "get_latest_metrics"
    /\ Len(ret.rows) = 3

\* C2 as claimed: over the whole life of the store, clear_database included,
\* every id a save assigns is greater than every id assigned earlier in the
\* same table.
C2_NeverReassigned ==
    \A t \in Tables : StrictlyIncreasing(assigned[t])

\* C2 as amended: in each table the ids assigned since the table was last wiped
\* by clear_database are strictly increasing; a wipe restarts the numbering.
C2_IncreasingSinceWipe ==
    \A t \in Tables : StrictlyIncreasing(SinceWipe(t))

\* a table was wiped after a save and a save has been given an id since
C2_Witness ==
    \E t \in Tables : cleared[t] >= 1 /\ Len(SinceWipe(t)) >= 1

\* C3: a save whose write fails raises nothing, leaves the three tables as they
\* were and returns its failure value (for save_network_metrics the value NoId,
\* which is below every valid id); an id >= 1 is returned only with exactly one
\* record of that id in the table.
C3_FailedSave ==
    /\ [](ret.op \in SaveOps => ~ret.raised)
    /\ [](ret.op = "save_network_metrics" =>
            /\ NoId < 1
            /\ ret.ok <=> ret.id >= 1
            /\ ~ret.ok => ret.id = NoId
            /\ ret.ok => Cardinality({r \in bitcoin_network_metrics : r.id = ret.id}) = 1)
    /\ [][ret'.op \in SaveOps /\ ~ret'.ok =>
            UNCHANGED <<bitcoin_network_metrics, profitability_analysis,
                        bitcoin_snapshots>>]_vars

\* a save has failed on a store that holds records in all three tables
C3_Witness ==
    /\ ret.op \in SaveOps /\ ~ret.ok
    /\ bitcoin_network_metrics # {}
    /\ profitability_analysis # {}
    /\ bitcoin_snapshots # {}

\* the row a successful save_network_metrics that returned id has written
Written(id) == CHOOSE r \in bitcoin_network_metrics : r.id = id

\* C11 as claimed: a successful save_network_metrics(d) of numeric values
\* followed at once by get_latest_metrics(1), on a connection that opens,
\* returns one entry, the record just written: its id is the returned id, its
\* price_usd is d's market price, its hashrate_ehs is d's raw hash rate divided
\* by 1e18 and its timestamp is the one the save stored.
C11_RoundTrip ==
    [][(/\ ret.op = "save_network_metrics" /\ ret.ok
        /\ Written(ret.id).raw_data.market_price_usd.k = "num"
        /\ Written(ret.id).raw_data.hashrate_24h.k = "num"
        /\ get_latest_metrics(1, FALSE)) =>
            LET d == Written(ret.id).raw_data IN
            /\ Len(ret'.rows) = 1
            /\ ret'.rows[1].id = ret.id
            /\ ret'.rows[1].price_usd = d.market_price_usd
            /\ ret'.rows[1].hashrate_ehs = Sci(d.hashrate_24h.v, Exponent(d.hashrate_24h) - Exa)
            /\ ret'.rows[1].timestamp = Written(ret.id).timestamp]_vars

\* C12: on a connection that opens, get_latest_metrics(limit) returns
\* min(limit, number of records) entries, each a different record of the
\* table, no record left out is newer than a returned one, and the entries
\* come in non-increasing order of timestamp.
C12_LatestOrdered ==
    [][\A limit \in Limits :
          (/\ ret'.op = "get_latest_metrics"
           /\ get_latest_metrics(limit, FALSE)) =>
          LET rows == ret'.rows
              returned == {rows[i].id : i \in DOMAIN rows}
          IN  /\ Len(rows) = Min(limit, Cardinality(bitcoin_network_metrics))
              /\ Cardinality(returned) = Len(rows)
              /\ \A i \in DOMAIN rows :
                     \E r \in bitcoin_network_metrics :
                        r.id = rows[i].id /\ r.timestamp = rows[i].timestamp
              /\ \A i, j \in DOMAIN rows : i < j => rows[i].timestamp >= rows[j].timestamp
              /\ \A r \in bitcoin_network_metrics : r.id \notin returned =>
                     \A i \in DOMAIN rows : rows[i].timestamp >= r.timestamp]_vars

\* the newest of three records of different age came back alone
C12_Witness ==
    /\ ret.op = "get_latest_metrics" /\ ret.ok
    /\ {r.timestamp : r \in bitcoin_network_metrics} = {0, 1, 2}
    /\ Len(ret.rows) = 1
    /\ ret.rows[1].timestamp = 2

\* C13: get_database_info never raises, whether the store can be read or not;
\* read on a store whose three tables are empty, it returns a summary with a
\* count of zero for every table, a total of zero and "Nenhum dado" for the
\* oldest and for the newest record.
C13_EmptyInfo ==
    ret.op = "get_database_info" =>
        /\ ~ret.raised
        /\ (/\ ret.ok
            /\ \A table \in Tables : Rows(table) = {}) =>
                /\ ~ret.info.empty
                /\ ret.info.network = 0
                /\ ret.info.profitability = 0
                /\ ret.info.snapshots = 0
                /\ ret.info.total_records = 0
                /\ ret.info.oldest_record = NenhumDado
                /\ ret.info.newest_record = NenhumDado

\* the summary of a store that held records and was wiped by clear_database
C13_Witness ==
    /\ ret.op = "get_database_info" /\ ret.ok
    /\ \A table \in Tables : Rows(table) = {}
    /\ cleared["bitcoin_network_metrics"] >= 1

\* C14: every record of the profitability table has the status PROFIT when
\* its stored daily_profit_usd is greater than 0 and the status LOSS otherwise,
\* whatever status the caller's dict held and whether its profit was a number,
\* missing or not a number.
C14_StatusDerived ==
    \A r \in profitability_analysis :
        /\ r.daily_profit_usd.k = "num"
        /\ r.status = IF r.daily_profit_usd.v > 0 THEN "PROFIT" ELSE "LOSS"

\* a profit, a loss handed in as a PROFIT and a non-numeric profit are stored
C14_Witness ==
    /\ \E r \in profitability_analysis : r.daily_profit_usd.v > 0 /\ r.status = "PROFIT"
    /\ \E r \in profitability_analysis : r.daily_profit_usd.v < 0 /\ r.status = "LOSS"
    /\ \E r \in profitability_analysis : r.daily_profit_usd.v = 0 /\ r.status = "LOSS"

\* C15: a save_profitability_analysis that meets no store error succeeds for
\* every integer network_metrics_id, whatever the network-metrics table holds,
\* and adds exactly one record, which carries the given network_metrics_id.
C15_ForeignKeyAsGiven ==
    [][\A input \in ProfitabilityInputs :
          (/\ save_profitability_analysis(input[1], input[2], "none")
           /\ CoercesToInteger(input[2])) =>
              /\ ret'.ok
              /\ \E r \in profitability_analysis' :
                     /\ r \notin profitability_analysis
                     /\ r.network_metrics_id = input[2]
                     /\ profitability_analysis' = profitability_analysis \cup {r}
              /\ bitcoin_network_metrics' = bitcoin_network_metrics]_vars

\* a profitability record was saved for id 1 after clear_database had removed
\* every network-metrics record
C15_Witness ==
    /\ ret.op = "save_profitability_analysis" /\ ret.ok
    /\ cleared["bitcoin_network_metrics"] >= 1
    /\ bitcoin_network_metrics = {}
    /\ \E r \in profitability_analysis : r.network_metrics_id = Num(1)

\* C16 as claimed: a save_comprehensive_snapshot that meets no store error
\* returns true for a blob of any shape and adds exactly one snapshot record,
\* which holds the blob.
C16_AnyBlobSaved ==
    [][\A blob \in SnapshotData :
          save_comprehensive_snapshot(blob, "full", "none") =>
              /\ ret'.ok
              /\ \E r \in bitcoin_snapshots' :
                     /\ r \notin bitcoin_snapshots
                     /\ r.snapshot_data = blob
                     /\ bitcoin_snapshots' = bitcoin_snapshots \cup {r}]_vars

(***************************************************************************)
(* BitcoinBlockchairDashboard.save_to_database, run by two dashboards on   *)
(* the same store file.  Each save of the manager is two steps, as in the  *)
(* code: _get_next_id reads max(id) on a connection of its own, and the    *)
(* INSERT follows on the save's connection.  The clock stands still here:  *)
(* no step of a run reads a timestamp back.                                *)
(***************************************************************************)
\* source = "modular" if self.use_modular_collector else "direct"
Source(d) == IF d = 1 THEN "modular" ELSE "direct"

\* the data dict of a run; save_to_database copies it with data.get(key, 0)
RunData == {NetworkDict(Num(144), Num(65000)), NetworkDict(Str, Absent)}

network_data(data) ==
    WithHashrate(NetworkDict(DictGet(data.blocks_24h, Num(0)),
                             DictGet(data.market_price_usd, Num(0))),
                 DictGet(data.hashrate_24h, Num(0)))

\* Python truth of what save_network_metrics returned: `if not network_id`
Truthy(id) == id # 0

\* mutant of ForeignKey: the id is asked of the store again (SELECT MAX(id))
ForeignKeyLatest(d) == SetMax(Ids("bitcoin_network_metrics") \cup {NoId})

\* the network_metrics_id a run hands on: the id its own save returned
ForeignKey(d) == run[d].network_id

\* snapshot_data
snapshot_data(d) == Blob(TRUE, TRUE, <<Source(d)>>, ForeignKey(d))

UnchangedStoreHistory == UNCHANGED <<now, ret, assigned, cleared, ops>>

\* run_analysis calls save_to_database(data, mining_metrics, profitability);
\* profitability is {} when analyze_profitability had nothing to analyse
StartRun(d, data, profitability) ==
    /\ pc[d] = "idle"
    /\ runs < MaxRuns
    /\ runs' = runs + 1
    /\ run' = [run EXCEPT ![d] = [NoRun EXCEPT !.data = network_data(data),
                                               !.profitability = profitability]]
    /\ pc' = [pc EXCEPT ![d] = "net_next_id"]
    /\ UNCHANGED <<bitcoin_network_metrics, profitability_analysis, bitcoin_snapshots>>
    /\ UnchangedStoreHistory

\* a save opens its connection and calls _get_next_id; a failed connect is
\* caught by the save, which returns its failure value at once.  _get_next_id
\* opens a connection of its own and closes it after its query: when the
\* query raises, it returns 1 without having called close()
AfterNextId(d, table, fault) ==
    [run EXCEPT ![d].next_id = get_next_id(Ids(table), fault = "next_id"),
                ![d].unclosed = IF fault = "next_id" THEN @ + 1 ELSE @]

\* conn.close() is the last statement of the try block of a save: the save
\* returns from its except branch without having called it
Unclosed(exception) == IF exception = "none" THEN 0 ELSE 1

\* save_network_metrics, first half; `if not network_id: return False`
NetNextId(d, fault) ==
    /\ pc[d] = "net_next_id"
    /\ run' = [AfterNextId(d, "bitcoin_network_metrics", fault) EXCEPT ![d].fault = fault]
    /\ pc' = [pc EXCEPT ![d] = IF fault = "connect" THEN "idle" ELSE "net_insert"]
    /\ UNCHANGED <<bitcoin_network_metrics, profitability_analysis, bitcoin_snapshots, runs>>
    /\ UnchangedStoreHistory

\* save_network_metrics, second half, and the test of its result
NetInsert(d, execFails) ==
    LET next_id == run[d].next_id
        exception == InsertError(Ids("bitcoin_network_metrics"), next_id,
                                 NetworkCoerces(run[d].data), execFails)
        network_id == NetworkResult(exception = "none", next_id)
    IN  /\ pc[d] = "net_insert"
        /\ bitcoin_network_metrics' =
              IF exception = "none"
              THEN Insert(bitcoin_network_metrics,
                          NetworkRow(next_id, now, Source(d), run[d].data))
              ELSE bitcoin_network_metrics
        /\ run' = [run EXCEPT
                     ![d].network_id = network_id,
                     ![d].unclosed = @ + Unclosed(exception),
                     ![d].fault = IF execFails THEN "execute" ELSE @,
                     ![d].written_network =
                         IF exception = "none" THEN {next_id} ELSE {}]
        /\ pc' = [pc EXCEPT ![d] =
                     IF ~Truthy(network_id) THEN "idle"
                     ELSE IF run[d].profitability THEN "prof_next_id"
                     ELSE "snap_next_id"]
        /\ UNCHANGED <<profitability_analysis, bitcoin_snapshots, runs>>
        /\ UnchangedStoreHistory

\* save_profitability_analysis, first half; its result is only logged
ProfNextId(d, fault) ==
    /\ pc[d] = "prof_next_id"
    /\ run' = AfterNextId(d, "profitability_analysis", fault)
    /\ pc' = [pc EXCEPT ![d] = IF fault = "connect" THEN "snap_next_id" ELSE "prof_insert"]
    /\ UNCHANGED <<bitcoin_network_metrics, profitability_analysis, bitcoin_snapshots, runs>>
    /\ UnchangedStoreHistory

ProfInsert(d, execFails) ==
    LET next_id == run[d].next_id
        row == ProfitabilityRow(next_id, now, ProfitabilityDict(Num(9)),
                                Num(ForeignKey(d)))
        exception == InsertError(Ids("profitability_analysis"), next_id,
                                 CoercesToInteger(Num(ForeignKey(d))), execFails)
    IN  /\ pc[d] = "prof_insert"
        /\ profitability_analysis' =
              IF exception = "none" THEN Insert(profitability_analysis, row)
              ELSE profitability_analysis
        /\ run' = [run EXCEPT ![d].unclosed = @ + Unclosed(exception),
                               ![d].written_profitability =
                         IF exception = "none" THEN @ \cup {row} ELSE @]
        /\ pc' = [pc EXCEPT ![d] = "snap_next_id"]
        /\ UNCHANGED <<bitcoin_network_metrics, bitcoin_snapshots, runs>>
        /\ UnchangedStoreHistory

\* save_comprehensive_snapshot, first half; its result is only logged
SnapNextId(d, fault) ==
    /\ pc[d] = "snap_next_id"
    /\ run' = AfterNextId(d, "bitcoin_snapshots", fault)
    /\ pc' = [pc EXCEPT ![d] = IF fault = "connect" THEN "info" ELSE "snap_insert"]
    /\ UNCHANGED <<bitcoin_network_metrics, profitability_analysis, bitcoin_snapshots, runs>>
    /\ UnchangedStoreHistory

SnapInsert(d, execFails) ==
    LET next_id == run[d].next_id
        blob == snapshot_data(d)
        row == SnapshotRow(next_id, now, "dashboard_run", blob)
        exception == IF SnapshotSourceRaises(blob) THEN "IndexError"
                     ELSE InsertError(Ids("bitcoin_snapshots"), next_id, TRUE, execFails)
    IN  /\ pc[d] = "snap_insert"
        /\ bitcoin_snapshots' =
              IF exception = "none" THEN Insert(bitcoin_snapshots, row)
              ELSE bitcoin_snapshots
        /\ run' = [run EXCEPT ![d].unclosed = @ + Unclosed(exception),
                               ![d].written_snapshots =
                         IF exception = "none" THEN @ \cup {row} ELSE @]
        /\ pc' = [pc EXCEPT ![d] = "info"]
        /\ UNCHANGED <<bitcoin_network_metrics, profitability_analysis, runs>>
        /\ UnchangedStoreHistory

\* get_database_info for the log, then `return True`
ReturnTrue(d) ==
    /\ pc[d] = "info"
    /\ run' = [run EXCEPT ![d].db_success = TRUE]
    /\ pc' = [pc EXCEPT ![d] = "idle"]
    /\ UNCHANGED <<bitcoin_network_metrics, profitability_analysis, bitcoin_snapshots, runs>>
    /\ UnchangedStoreHistory

NextIdFaults == {"none", "connect", "next_id"}

NextRuns ==
    \/ \E d \in Dashboards, data \in RunData, profitability \in BOOLEAN :
          StartRun(d, data, profitability) /\ UNCHANGED <<collectVars, freeVars, analysisVars, timingVars>>
    \/ \E d \in Dashboards, fault \in NextIdFaults : NetNextId(d, fault) /\ UNCHANGED <<collectVars, freeVars, analysisVars, timingVars>>
    \/ \E d \in Dashboards, execFails \in BOOLEAN : NetInsert(d, execFails) /\ UNCHANGED <<collectVars, freeVars, analysisVars, timingVars>>
    \/ \E d \in Dashboards, fault \in NextIdFaults : ProfNextId(d, fault) /\ UNCHANGED <<collectVars, freeVars, analysisVars, timingVars>>
    \/ \E d \in Dashboards, execFails \in BOOLEAN : ProfInsert(d, execFails) /\ UNCHANGED <<collectVars, freeVars, analysisVars, timingVars>>
    \/ \E d \in Dashboards, fault \in NextIdFaults : SnapNextId(d, fault) /\ UNCHANGED <<collectVars, freeVars, analysisVars, timingVars>>
    \/ \E d \in Dashboards, execFails \in BOOLEAN : SnapInsert(d, execFails) /\ UNCHANGED <<collectVars, freeVars, analysisVars, timingVars>>
    \/ \E d \in Dashboards : ReturnTrue(d) /\ UNCHANGED <<collectVars, freeVars, analysisVars, timingVars>>

SpecRuns == Init /\ [][NextRuns]_vars

(***************************************************************************)
(* Properties of the runs under SpecRuns.                                  *)
(***************************************************************************)
\* C4: in a run the network-metrics record is written, and its id returned,
\* before any other write; a run whose network save failed writes no
\* profitability and no snapshot record; a run writes at most one of each, and
\* both carry the id the network save returned in this same run, also when the
\* steps of two runs on the same store interleave.
C4_RunOrder ==
    \A d \in Dashboards :
        LET dependent == run[d].written_profitability \cup run[d].written_snapshots
        IN  /\ dependent # {} =>
                /\ Truthy(run[d].network_id)
                /\ run[d].written_network = {run[d].network_id}
                /\ \E r \in bitcoin_network_metrics :
                       r.id = run[d].network_id /\ r.data_source = Source(d)
            /\ ~Truthy(run[d].network_id) => dependent = {}
            /\ Cardinality(run[d].written_profitability) <= 1
            /\ Cardinality(run[d].written_snapshots) <= 1
            /\ \A r \in run[d].written_profitability :
                   r.network_metrics_id = Num(run[d].network_id)
            /\ \A r \in run[d].written_snapshots :
                   r.snapshot_data.network_metrics_id = run[d].network_id

\* two runs whose steps interleaved have both written all three records
C4_Witness ==
    /\ pc[1] = "info" /\ pc[2] = "info"
    /\ \A d \in Dashboards :
          /\ run[d].written_profitability # {}
          /\ run[d].written_snapshots # {}
    /\ run[1].network_id = 2 /\ run[2].network_id = 1

\* C10: when the save_network_metrics of two managers overlap on the same
\* table and the store raises no error of its own, each manager's save of a
\* well-typed record succeeds: it returns a valid id of its own and its record
\* is persisted.
C10_ManagersAgree ==
    \A d \in Dashboards :
        (/\ pc[d] # "net_next_id" /\ pc[d] # "net_insert"
         /\ run[d].data # NoRun.data
         /\ \A e \in Dashboards : run[e].fault = "none"
         /\ NetworkCoerces(run[d].data)) =>
            /\ run[d].network_id >= 1
            /\ \E r \in bitcoin_network_metrics :
                   r.id = run[d].network_id /\ r.data_source = Source(d)
            /\ \A e \in Dashboards \ {d} :
                   run[e].network_id >= 1 => run[e].network_id # run[d].network_id

(***************************************************************************)
(* SpecCollect: collectors are constructed one after another, as the       *)
(* module-level collect_blockchain_data does, and each runs one            *)
(* collect_from_all_sources.  The three fetch tasks of a collection        *)
(* interleave request by request.                                          *)
(***************************************************************************)
Has(seq, x) == \E i \in DOMAIN seq : seq[i] = x

\* what is kept of a finished collection about the watched source; it serves
\* as the reference when the fetch of every other source returned a payload
Watched ==
    [valid |-> TRUE,
     configured |-> watch \in data_sources,
     responses |-> recorded,
     entry |-> collected_data.sources[watch],
     success |-> Has(collected_data.metadata.success_sources, watch),
     failed |-> Has(collected_data.metadata.failed_sources, watch)]

SiblingsSucceeded == \A name \in Tasks \ {watch} : ~task[name].result.null

\* BlockchainCollector.__init__
BlockchainCollector(file, source) ==
    /\ phase \in {"none", "done"}
    /\ phase = "done" => source = watch
    /\ data_sources' = load_data_sources_config(file)
    /\ collected_data' = NoBundle
    /\ task' = [name \in Tasks |-> NoTask]
    /\ phase' = "ready"
    /\ watch' = source
    /\ previous' = IF phase = "done" /\ SiblingsSucceeded THEN Watched ELSE NoPrevious
    /\ recorded' = <<>>
    /\ primary_metrics' = NoMetrics
    /\ UNCHANGED <<storeVars, runVars, freeVars, analysisVars, timingVars>>

\* collect_from_all_sources up to its await of asyncio.gather: every task of
\* the tasks dict is created and scheduled
collect_from_all_sources ==
    /\ phase = "ready"
    /\ phase' = "collecting"
    /\ task' = [name \in Tasks |-> [NoTask EXCEPT !.pc = "first"]]
    /\ primary_metrics' = NoMetrics
    /\ UNCHANGED <<data_sources, collected_data, watch, recorded, previous>>
    /\ UNCHANGED <<storeVars, runVars, freeVars, analysisVars, timingVars>>

Done(result) == [pc |-> "done", first |-> NoJson, result |-> result]

Recorded(name, response) == IF name = watch THEN Append(recorded, response) ELSE recorded

UnchangedCollector ==
    UNCHANGED <<data_sources, phase, collected_data, watch, previous, primary_metrics>>

\* fetch_blockchair_data, one request at a time: /stats, then /blocks when
\* the answer to /stats has a "data" key
fetch_blockchair_data(response) ==
    LET t == task["blockchair"] IN
    /\ phase = "collecting"
    /\ t.pc \in {"first", "second"}
    /\ IF "blockchair" \notin data_sources
         THEN /\ task' = [task EXCEPT !["blockchair"] = Done(NoData)]
              /\ UNCHANGED recorded
         ELSE IF t.pc = "first"
         THEN /\ response \in StatsResponses
              /\ LET stats_data == make_api_request(response) IN
                 task' = [task EXCEPT !["blockchair"] =
                            IF NonEmpty(stats_data) /\ "data" \in stats_data.keys
                              THEN [pc |-> "second", first |-> stats_data, result |-> NoData]
                              ELSE Done(NoData)]
              /\ recorded' = Recorded("blockchair", response)
         ELSE /\ response \in Responses
              /\ LET blocks_data == make_api_request(response)
                     blockchair_data ==
                         t.first.data \cup
                         (IF NonEmpty(blocks_data) THEN {"recent_blocks"} ELSE {})
                 IN task' = [task EXCEPT !["blockchair"] =
                               Done([Dict(blockchair_data) EXCEPT !.nulls = t.first.nulls])]
              /\ recorded' = Recorded("blockchair", response)
    /\ UnchangedCollector
    /\ UNCHANGED <<storeVars, runVars, freeVars, analysisVars, timingVars>>

\* the dict a secondary fetch builds from its two answers; None when empty
TwoPart(first, first_key, second, second_key) ==
    LET keys == (IF NonEmpty(first) THEN {first_key} ELSE {}) \cup
                (IF NonEmpty(second) THEN {second_key} ELSE {})
    IN IF keys # {} THEN Dict(keys) ELSE NoData

\* fetch_mempool_space_data, one request at a time: fees, then blocks
fetch_mempool_space_data(response) ==
    LET t == task["mempool_space"] IN
    /\ phase = "collecting"
    /\ t.pc \in {"first", "second"}
    /\ response \in Responses
    /\ IF "mempool_space" \notin data_sources
         THEN /\ task' = [task EXCEPT !["mempool_space"] = Done(NoData)]
              /\ UNCHANGED recorded
         ELSE IF t.pc = "first"
         THEN /\ LET fees_data == make_api_request(response) IN
                 task' = [task EXCEPT !["mempool_space"] =
                            [pc |-> "second", first |-> fees_data, result |-> NoData]]
              /\ recorded' = Recorded("mempool_space", response)
         ELSE /\ LET blocks_data == make_api_request(response)
                     mempool_data == TwoPart(t.first, "recommended_fees",
                                             blocks_data, "recent_blocks")
                 IN task' = [task EXCEPT !["mempool_space"] = Done(mempool_data)]
              /\ recorded' = Recorded("mempool_space", response)
    /\ UnchangedCollector
    /\ UNCHANGED <<storeVars, runVars, freeVars, analysisVars, timingVars>>

\* fetch_blockchain_com_data, one request at a time: mining, then stats
fetch_blockchain_com_data(response) ==
    LET t == task["blockchain_com"] IN
    /\ phase = "collecting"
    /\ t.pc \in {"first", "second"}
    /\ response \in Responses
    /\ IF "blockchain_com" \notin data_sources
         THEN /\ task' = [task EXCEPT !["blockchain_com"] = Done(NoData)]
              /\ UNCHANGED recorded
         ELSE IF t.pc = "first"
         THEN /\ LET mining_data == make_api_request(response) IN
                 task' = [task EXCEPT !["blockchain_com"] =
                            [pc |-> "second", first |-> mining_data, result |-> NoData]]
              /\ recorded' = Recorded("blockchain_com", response)
         ELSE /\ LET stats_data == make_api_request(response)
                     blockchain_com_data == TwoPart(t.first, "mining_stats",
                                                    stats_data, "exchange_rates")
                 IN task' = [task EXCEPT !["blockchain_com"] = Done(blockchain_com_data)]
              /\ recorded' = Recorded("blockchain_com", response)
    /\ UnchangedCollector
    /\ UNCHANGED <<storeVars, runVars, freeVars, analysisVars, timingVars>>

\* a validation that accepts blockchair when any critical field is present
validate_any_critical(data, source) ==
    [source |-> source,
     is_valid |-> source = "blockchair" /\ CriticalFields \cap data.keys # {},
     fields_count |-> Cardinality(data.keys),
     missing_critical_fields |-> {},
     warnings |-> <<>>]

\* validate_data_quality: only blockchair is checked for critical fields, and
\* only in that branch is is_valid set
validate_data_quality(data, source) ==
    IF ~NonEmpty(data)
      THEN [source |-> source, is_valid |-> FALSE, fields_count |-> 0,
            missing_critical_fields |-> {}, warnings |-> <<"Dados vazios ou nulos">>]
      ELSE LET missing_fields ==
                   IF source = "blockchair" THEN CriticalFields \ data.keys ELSE {}
           IN [source |-> source,
               is_valid |-> source = "blockchair" /\ missing_fields = {},
               fields_count |-> Cardinality(data.keys),
               missing_critical_fields |-> missing_fields,
               warnings |->
                   (IF missing_fields # {} THEN <<"Campos criticos faltando">> ELSE <<>>) \o
                   (IF Cardinality(data.keys) < 3 THEN <<"Poucos campos coletados">> ELSE <<>>)]

\* generate_data_hash: the md5 digest of the sorted JSON text of the payload
generate_data_hash(data) == [md5 |-> <<data.keys, data.nulls>>]

\* a gather whose first failed task cancels the others
gather_fail_fast(t) ==
    [i \in DOMAIN TaskNames |->
        IF \E name \in Tasks : t[name].result.null THEN NoData ELSE t[TaskNames[i]].result]

\* a gather that hands the results back in the order the tasks were created
\* in, shifted by one
gather_rotated(t) == [i \in DOMAIN TaskNames |-> t[TaskNames[(i % Len(TaskNames)) + 1]].result]

\* asyncio.gather(*tasks.values(), return_exceptions=True): the results in the
\* order of the tasks
gather(t) == [i \in DOMAIN TaskNames |-> t[TaskNames[i]].result]

\* a loop body that builds an entry for a source without a result too
process_keeps_entry(source_name, result) ==
    LET validation == validate_data_quality(result, source_name) IN
    [success |-> validation.is_valid,
     entry |-> [null |-> FALSE, data |-> result, validation |-> validation,
                data_hash |-> generate_data_hash(result)]]

\* the body of the result loop: classification and entry of one source
process(source_name, result) ==
    IF result.null
      THEN [success |-> FALSE, entry |-> NullEntry]
      ELSE LET validation == validate_data_quality(result, source_name) IN
           [success |-> validation.is_valid,
            entry |-> [null |-> FALSE, data |-> result, validation |-> validation,
                       data_hash |-> generate_data_hash(result)]]

IndexOf(name) == CHOOSE i \in DOMAIN TaskNames : TaskNames[i] = name

\* the bundle collect_from_all_sources builds from the gathered results
comprehensive_data(results) ==
    LET outcome == [name \in Tasks |-> process(name, results[IndexOf(name)])]
        success_sources == SelectSeq(TaskNames, LAMBDA name : outcome[name].success)
        failed_sources == SelectSeq(TaskNames, LAMBDA name : ~outcome[name].success)
        sources == [name \in Tasks |-> outcome[name].entry]
    IN [returned |-> TRUE,
        metadata |-> [success_sources |-> success_sources,
                      failed_sources |-> failed_sources,
                      total_sources_attempted |-> Len(TaskNames),
                      total_sources_successful |-> Len(success_sources)],
        sources |-> sources,
        primary_data |-> IF ~sources["blockchair"].null
                           THEN sources["blockchair"].data ELSE Dict({})]

\* collect_from_all_sources after gather: the result loop, the bundle, the
\* cache and the return
process_results ==
    /\ phase = "collecting"
    /\ \A name \in Tasks : task[name].pc = "done"
    /\ collected_data' = comprehensive_data(gather(task))
    /\ phase' = "done"
    /\ UNCHANGED <<data_sources, task, watch, recorded, previous, primary_metrics>>
    /\ UNCHANGED <<storeVars, runVars, freeVars, analysisVars, timingVars>>

\* the keys get_primary_metrics copies from primary_data
AllowList ==
    {"blocks", "transactions", "outputs", "circulation", "blocks_24h",
     "transactions_24h", "difficulty", "volume_24h", "mempool_transactions",
     "mempool_size", "mempool_tps", "best_block_height", "best_block_hash",
     "best_block_time", "blockchain_size", "average_transaction_fee_24h",
     "median_transaction_fee_24h", "suggested_transaction_fee_per_byte_sat",
     "nodes", "hashrate_24h", "market_price_usd", "market_cap_usd",
     "market_dominance_percentage", "next_difficulty_estimate", "hodling_addresses"}

\* a projection that keeps every key of primary_data with a value
PrimaryMetricsUnfiltered(bundle) ==
    IF ~bundle.returned THEN Dict({})
    ELSE Dict(bundle.primary_data.keys \ bundle.primary_data.nulls)

\* the dict get_primary_metrics builds from the cache: empty when the cache is
\* empty, else the allow-listed keys, a key that primary_data lacks or holds
\* as null being dropped by the closing comprehension
PrimaryMetrics(bundle) ==
    IF ~bundle.returned THEN Dict({})
    ELSE LET primary_data == bundle.primary_data
             metrics == [key \in AllowList |->
                            IF key \in primary_data.keys /\ key \notin primary_data.nulls
                              THEN "value" ELSE "None"]
         IN Dict({k \in AllowList : metrics[k] # "None"})

\* BlockchainCollector.get_primary_metrics, called on a collector that is not
\* in the middle of a collection
get_primary_metrics ==
    /\ phase \in {"ready", "done"}
    /\ primary_metrics' = [called |-> TRUE, metrics |-> PrimaryMetrics(collected_data)]
    /\ UNCHANGED <<data_sources, phase, task, collected_data, watch, recorded, previous>>
    /\ UNCHANGED <<storeVars, runVars, freeVars, analysisVars, timingVars>>

\* what fetch_blockchain_data_modular returns once the module-level
\* get_primary_metrics (construct, collect, project) has returned: the metrics
\* when they are a non-empty dict, else None
fetch_blockchain_data_modular ==
    IF NonEmpty(primary_metrics.metrics) THEN primary_metrics.metrics ELSE NoData

NextCollect ==
    \/ get_primary_metrics
    \/ \E file \in ConfigFiles, source \in Tasks : BlockchainCollector(file, source)
    \/ collect_from_all_sources
    \/ \E response \in StatsResponses \cup Responses : fetch_blockchair_data(response)
    \/ \E response \in Responses : fetch_mempool_space_data(response)
    \/ \E response \in Responses : fetch_blockchain_com_data(response)
    \/ process_results

SpecCollect == Init /\ [][NextCollect]_vars

(***************************************************************************)
(* Properties of the collector under SpecCollect.                          *)
(***************************************************************************)
Success == collected_data.metadata.success_sources
Failed == collected_data.metadata.failed_sources
Entry(name) == collected_data.sources[name]
Result(name) == task[name].result
Members(seq) == {seq[i] : i \in DOMAIN seq}

\* C5: a collection always returns a bundle with an entry and one
\* classification for each of the three sources, whatever the other fetches
\* did; and the entry and classification of a source that got the same answers
\* as in a reference collection, in which every other source's fetch returned
\* a payload, are the same as in that reference, whichever other fetches failed
\* now (by a timeout, a non-200 status, a JSON decode error or an exception).
C5_FailureIsolated ==
    phase = "done" =>
        /\ collected_data.returned
        /\ DOMAIN collected_data.sources = Tasks
        /\ \A name \in Tasks : Has(Success, name) # Has(Failed, name)
        /\ (/\ previous.valid
            /\ previous.responses = recorded
            /\ previous.configured = (watch \in data_sources)) =>
                /\ Entry(watch) = previous.entry
                /\ Has(Success, watch) = previous.success
                /\ Has(Failed, watch) = previous.failed

\* the watched source succeeds as in the reference while a configured sibling,
\* which returned a payload in the reference, has now failed
C5_Witness ==
    /\ phase = "done"
    /\ previous.valid /\ previous.success
    /\ previous.responses = recorded
    /\ Has(Success, watch)
    /\ \E name \in (Tasks \cap data_sources) \ {watch} : Result(name).null

\* a payload that lacks nothing the validation asks of its source
Complete(name, result) ==
    NonEmpty(result) /\ (name = "blockchair" => CriticalFields \subseteq result.keys)

\* C6 as claimed: when the fetches of exactly two of the three configured
\* sources return nothing and the third returns a complete payload, the third
\* is the only member of success_sources and the other two are failed_sources.
C6_SoleSurvivor ==
    \A survivor \in Tasks :
        (/\ phase = "done"
         /\ data_sources = DefaultSources
         /\ Complete(survivor, Result(survivor))
         /\ \A name \in Tasks \ {survivor} : Result(name).null) =>
            /\ Success = <<survivor>>
            /\ Members(Failed) = Tasks \ {survivor}

\* C7 as claimed: a collection that ends with an empty success_sources has
\* returned a bundle whose per-source entries are all null.
C7_AllNull ==
    (phase = "done" /\ Success = <<>>) =>
        /\ collected_data.returned
        /\ \A name \in Tasks : Entry(name).null

\* C7 amended: a collection in which every fetch returned nothing has returned
\* a bundle with an empty success_sources, all three sources in failed_sources
\* and every per-source entry null.
C7_AllFetchesFail ==
    (phase = "done" /\ \A name \in Tasks : Result(name).null) =>
        /\ collected_data.returned
        /\ Success = <<>>
        /\ Failed = TaskNames
        /\ \A name \in Tasks : Entry(name).null

\* all three sources are configured and every fetch has failed
C7_Witness ==
    /\ phase = "done"
    /\ data_sources = DefaultSources
    /\ \A name \in Tasks : Result(name).null
    /\ collected_data.metadata.total_sources_successful = 0

\* C8: blockchair is in success_sources exactly when its payload is non-empty
\* and has all four critical fields; with a payload that lacks a critical
\* field it is in failed_sources and its entry still holds the payload, the
\* verdict of the validation and the hash of the payload.
C8_PrimaryClassified ==
    phase = "done" =>
        LET result == Result("blockchair")
            entry == Entry("blockchair")
        IN /\ Has(Success, "blockchair") <=>
                  (NonEmpty(result) /\ CriticalFields \subseteq result.keys)
           /\ (~result.null /\ ~(CriticalFields \subseteq result.keys)) =>
                  /\ Has(Failed, "blockchair")
                  /\ ~entry.null
                  /\ entry.data = result
                  /\ entry.validation.source = "blockchair"
                  /\ ~entry.validation.is_valid
                  /\ entry.data_hash = generate_data_hash(result)

\* blockchair answered with three of the four critical fields
C8_Witness ==
    /\ phase = "done"
    /\ Has(Failed, "blockchair")
    /\ Entry("blockchair").validation.missing_critical_fields = {"hashrate_24h"}
    /\ "recent_blocks" \in Entry("blockchair").data.keys

\* C9 as claimed: the sources a collection reports on are the sources of the
\* collector's DataSourceConfig map, and total_sources_attempted is their
\* number.
C9_ConfiguredSources ==
    phase = "done" =>
        /\ DOMAIN collected_data.sources = data_sources
        /\ collected_data.metadata.total_sources_attempted = Cardinality(data_sources)

(***************************************************************************)
(* SpecFree: collect_all_free_data of the FreeAPICollector, call after     *)
(* call.  The tasks of its gather answer in any order.                     *)
(***************************************************************************)
\* a fallback that passes for a live answer
get_fallback_untagged(component) == Component(LiveSource(component), TRUE, "default")

\* get_fallback_price, get_fallback_stats, get_fallback_difficulty,
\* get_fallback_mempool, get_fallback_pools: the hard-coded defaults
get_fallback(component) == Component("fallback", FALSE, "default")

\* what a getter returns for the answer to its request: the live component on
\* status 200 with a JSON body, its fallback on another status (after the
\* with blocks) and on every exception (the except branch)
Fetch(component, status) ==
    IF status = "ok" THEN Component(LiveSource(component), TRUE, "live")
    ELSE get_fallback(component)

Answered(component, status) ==
    [free_tasks EXCEPT ![component] =
        [pc |-> "done", status |-> status, result |-> Fetch(component, status)]]

\* collect_all_free_data up to its await of asyncio.gather
collect_all_free_data ==
    /\ \A component \in Components : free_tasks[component].pc \in {"init", "returned"}
    /\ free_tasks' = [component \in Components |-> [NoFreeTask EXCEPT !.pc = "pending"]]
    /\ combined_data' = [component \in Components |-> NoComponent]
    /\ UNCHANGED <<storeVars, runVars, collectVars, analysisVars, timingVars>>

get_bitcoin_price(status) ==
    /\ free_tasks["price_data"].pc = "pending"
    /\ free_tasks' = Answered("price_data", status)
    /\ UNCHANGED <<combined_data, storeVars, runVars, collectVars, analysisVars, timingVars>>

get_blockchain_stats(status) ==
    /\ free_tasks["blockchain_stats"].pc = "pending"
    /\ free_tasks' = Answered("blockchain_stats", status)
    /\ UNCHANGED <<combined_data, storeVars, runVars, collectVars, analysisVars, timingVars>>

get_network_difficulty(status) ==
    /\ free_tasks["network_difficulty"].pc = "pending"
    /\ free_tasks' = Answered("network_difficulty", status)
    /\ UNCHANGED <<combined_data, storeVars, runVars, collectVars, analysisVars, timingVars>>

get_mempool_data(status) ==
    /\ free_tasks["mempool_data"].pc = "pending"
    /\ free_tasks' = Answered("mempool_data", status)
    /\ UNCHANGED <<combined_data, storeVars, runVars, collectVars, analysisVars, timingVars>>

\* get_mining_pool_distribution: no request, an estimate tagged as such
get_mining_pool_distribution ==
    /\ free_tasks["mining_pools"].pc = "pending"
    /\ free_tasks' = [free_tasks EXCEPT !["mining_pools"] =
                         [pc |-> "done", status |-> "",
                          result |-> Component("estimated", FALSE, "default")]]
    /\ UNCHANGED <<combined_data, storeVars, runVars, collectVars, analysisVars, timingVars>>

\* collect_all_free_data after gather: the record of the five results
combine_results ==
    /\ \A component \in Components : free_tasks[component].pc = "done"
    /\ combined_data' = [component \in Components |-> free_tasks[component].result]
    /\ free_tasks' = [component \in Components |->
                         [free_tasks[component] EXCEPT !.pc = "returned"]]
    /\ UNCHANGED <<storeVars, runVars, collectVars, analysisVars, timingVars>>

NextFree ==
    \/ collect_all_free_data
    \/ \E status \in FreeStatuses : get_bitcoin_price(status)
    \/ \E status \in FreeStatuses : get_blockchain_stats(status)
    \/ \E status \in FreeStatuses : get_network_difficulty(status)
    \/ \E status \in FreeStatuses : get_mempool_data(status)
    \/ get_mining_pool_distribution
    \/ combine_results

SpecFree == Init /\ [][NextFree]_vars

Returned == \A component \in Components : free_tasks[component].pc = "returned"

\* C17: in the record collect_all_free_data returns, a fetched component whose
\* request failed (timeout, non-200 status, JSON decode error, exception) is
\* its hard-coded default tagged source "fallback" and realtime false; a
\* component is tagged realtime only when its own request succeeded in this
\* call; and no component of the record is empty.
C17_FallbackTagged ==
    Returned =>
        /\ \A component \in Fetched :
              /\ free_tasks[component].status \in FailureKinds =>
                     /\ combined_data[component].source = "fallback"
                     /\ ~combined_data[component].realtime
                     /\ combined_data[component].values = "default"
              /\ combined_data[component].realtime =>
                     free_tasks[component].status = "ok"
        /\ \A component \in Components : ~combined_data[component].empty

\* every request of the call has failed, each in a different way
C17_Witness ==
    /\ Returned
    /\ \A component \in Fetched : free_tasks[component].status \in FailureKinds
    /\ {free_tasks[component].status : component \in Fetched} = FailureKinds

\* C18 as claimed: constructing a collector on a config file that is absent,
\* that does not parse to a mapping, or that parses to a mapping without
\* sources under blockchain_data, leaves it with the three default sources
\* and never with none.
C18_DefaultSources ==
    [][\A file \in ConfigFiles, source \in Tasks :
          (/\ BlockchainCollector(file, source)
           /\ (~file.exists \/ ~file.mapping \/ file.blockchain_data = {})) =>
              /\ data_sources' = DefaultSources
              /\ data_sources' # {}]_vars

\* the collector's state apart from the value a call returns
collectorState == <<data_sources, phase, task, collected_data, watch, recorded, previous>>

\* C19: a call of get_primary_metrics returns exactly the allow-listed fields
\* that the cached primary_data holds with a non-null value, the empty dict
\* while nothing has been collected; it leaves the collector, the store and
\* every other state as they were, and a call that follows another call
\* returns the same dict.
C19_PrimaryMetrics ==
    [][get_primary_metrics =>
          LET cached == collected_data.primary_data
              metrics == primary_metrics'.metrics
          IN /\ ~metrics.null
             /\ metrics.nulls = {}
             /\ metrics.keys \subseteq AllowList
             /\ collected_data.returned =>
                    \A field \in AllowList \cup cached.keys :
                        field \in metrics.keys <=>
                            (/\ field \in AllowList
                             /\ field \in cached.keys
                             /\ field \notin cached.nulls)
             /\ ~collected_data.returned => metrics.keys = {}
             /\ UNCHANGED <<collectorState, storeVars, runVars, freeVars, analysisVars, timingVars>>
             /\ primary_metrics.called => primary_metrics' = primary_metrics]_vars

\* a call has returned a non-empty dict from a cache whose primary_data holds
\* a key outside the allow-list and an allow-listed key with a null value
C19_Witness ==
    /\ primary_metrics.called
    /\ primary_metrics.metrics.keys # {}
    /\ "recent_blocks" \in collected_data.primary_data.keys
    /\ "nodes" \in collected_data.primary_data.nulls
    /\ "nodes" \notin primary_metrics.metrics.keys

\* C20: on the modular path, a blockchair payload that failed validation
\* (blockchair is listed in failed_sources) is not returned by
\* fetch_blockchain_data_modular as the metrics dict.
C20_FailedPrimaryNotTrusted ==
    (/\ primary_metrics.called
     /\ phase = "done"
     /\ Has(collected_data.metadata.failed_sources, "blockchair")) =>
        fetch_blockchain_data_modular = NoData

(***************************************************************************)
(* SpecAnalysis: a dashboard is constructed and its run_analysis runs:     *)
(* the fetch, the calculations, then save_to_database, whose store         *)
(* operations are those of the manager above.  The clock stands still.     *)
(***************************************************************************)
\* BitcoinBlockchairDashboard.__init__, with the collector module and the
\* manager importable and the store enabled
BitcoinBlockchairDashboard(use_modular_collector) ==
    /\ dashboard.pc \in {"none", "returned"}
    /\ dashboard.analyses < MaxAnalyses
    /\ dashboard' = [NoDashboard EXCEPT !.pc = "ready",
                                        !.use_modular_collector = use_modular_collector,
                                        !.analyses = dashboard.analyses + 1]
    /\ UNCHANGED <<storeVars, runVars, collectVars, freeVars, timingVars>>

\* what a fetch path returns: a non-empty dict, or None
Answer(data) == [null |-> FALSE, data |-> data]
NoAnswer == [null |-> TRUE, data |-> NoDashboard.data]
Answers == {Answer(data) : data \in Payloads} \cup {NoAnswer}

\* fetch_blockchain_data: the modular collector when it is in use and returns
\* data, else the direct request; run_analysis returns when there is no data.
\* modular_data is what fetch_blockchain_data_modular returns and direct_data
\* what fetch_blockchain_data_direct returns, each when it is called
fetch_blockchain_data(modular_data, direct_data) ==
    LET modular == dashboard.use_modular_collector /\ ~modular_data.null
        answer == IF modular THEN modular_data ELSE direct_data
    IN  /\ dashboard.pc = "ready"
        /\ ~dashboard.use_modular_collector => modular_data = NoAnswer
        /\ modular => direct_data = NoAnswer
        /\ dashboard' =
              [dashboard EXCEPT
                 !.pc = IF answer.null THEN "returned" ELSE "fetched",
                 !.data = answer.data,
                 !.path = IF answer.null THEN "none"
                          ELSE IF modular THEN "modular" ELSE "direct"]
        /\ UNCHANGED <<storeVars, runVars, collectVars, freeVars, timingVars>>

\* process_hashrate: int(hashrate_str) and its conversions; {} on the
\* ValueError of a string int() does not read and on the TypeError of None;
\* the OverflowError of an infinite float is not caught here
process_hashrate(hashrate_str) ==
    IF hashrate_str.k = "inf"
      THEN [raises |-> TRUE, empty |-> TRUE, exahash_s |-> Num(0)]
    ELSE IF hashrate_str.k = "num" /\ Form(hashrate_str) \in {"int", "float", "digits"}
      THEN [raises |-> FALSE, empty |-> FALSE,
            exahash_s |-> Sci(hashrate_str.v, Exponent(hashrate_str) - Exa)]
    ELSE [raises |-> FALSE, empty |-> TRUE, exahash_s |-> Num(0)]

\* a calculation with the block reward after the next halving
calculate_mining_metrics_halved(data) ==
    LET conversions == process_hashrate(DictGet(data.hashrate_24h, Encoded(0, 0, "digits")))
        exahash == IF conversions.empty THEN Num(0) ELSE conversions.exahash_s
        btc_price == DictGet(data.market_price_usd, Num(0))
        daily_blocks == DictGet(data.blocks_24h, Num(144))
    IN  IF conversions.raises \/ ~IsNumber(btc_price) \/ ~IsNumber(daily_blocks)
          THEN NoMiningMetrics
          ELSE LET network_hashrate_th == Sci(exahash.v, Exponent(exahash) + 6)
                   daily_network_revenue == Mul(Mul(daily_blocks, Rat(3125, 1000)), btc_price)
               IN [empty |-> FALSE,
                   hashrate_ehs |-> exahash,
                   daily_blocks |-> daily_blocks,
                   daily_network_revenue_usd |-> daily_network_revenue,
                   hash_price_usd_per_th_per_day |->
                       IF network_hashrate_th.v > 0
                         THEN Div(daily_network_revenue, Fraction(network_hashrate_th))
                         ELSE Num(0)]

\* calculate_mining_metrics for a non-empty data dict; {} when anything in its
\* try block raises: the OverflowError of process_hashrate, the TypeError of
\* multiplying by a price or a block count that is no number
calculate_mining_metrics(data) ==
    LET conversions == process_hashrate(DictGet(data.hashrate_24h, Encoded(0, 0, "digits")))
        exahash == IF conversions.empty THEN Num(0) ELSE conversions.exahash_s
        btc_price == DictGet(data.market_price_usd, Num(0))
        daily_blocks == DictGet(data.blocks_24h, Num(144))
    IN  IF conversions.raises \/ ~IsNumber(btc_price) \/ ~IsNumber(daily_blocks)
          THEN NoMiningMetrics
          ELSE LET network_hashrate_th == Sci(exahash.v, Exponent(exahash) + 6)
                   daily_network_revenue == Mul(Mul(daily_blocks, Rat(625, 100)), btc_price)
               IN [empty |-> FALSE,
                   hashrate_ehs |-> exahash,
                   daily_blocks |-> daily_blocks,
                   daily_network_revenue_usd |-> daily_network_revenue,
                   hash_price_usd_per_th_per_day |->
                       IF network_hashrate_th.v > 0
                         THEN Div(daily_network_revenue, Fraction(network_hashrate_th))
                         ELSE Num(0)]

\* analyze_profitability for a non-empty data dict: {} when the mining
\* metrics are {}
analyze_profitability(data, mining_metrics) ==
    IF mining_metrics.empty THEN NoProfitability
    ELSE LET hash_price == mining_metrics.hash_price_usd_per_th_per_day
             miner_hashrate_th == Num(140)
             miner_power_consumption_w == Num(3010)
             energy_cost_per_kwh == Rat(8, 100)
             daily_revenue == Mul(hash_price, miner_hashrate_th)
             daily_energy_cost ==
                 Mul(Div(Mul(miner_power_consumption_w, Num(24)), Num(1000)),
                     energy_cost_per_kwh)
             daily_profit == Sub(daily_revenue, daily_energy_cost)
             hardware_cost == Num(4500)
             roi_days == IF daily_profit.v > 0 THEN Div(hardware_cost, daily_profit) ELSE Inf
         IN [empty |-> FALSE,
             dict |-> [ProfitabilityDict(daily_profit) EXCEPT
                         !.daily_revenue_usd = daily_revenue,
                         !.daily_energy_cost_usd = daily_energy_cost,
                         !.profit_margin_percentage =
                             IF daily_revenue.v > 0
                               THEN Mul(Div(daily_profit, daily_revenue), Num(100))
                               ELSE Num(0),
                         !.roi_days = roi_days]]

\* run_analysis between the fetch and save_to_database
run_analysis ==
    /\ dashboard.pc = "fetched"
    /\ LET mining_metrics == calculate_mining_metrics(dashboard.data)
       IN dashboard' =
             [dashboard EXCEPT
                !.pc = "save",
                !.mining_metrics = mining_metrics,
                !.profitability = analyze_profitability(dashboard.data, mining_metrics)]
    /\ UNCHANGED <<storeVars, runVars, collectVars, freeVars, timingVars>>

\* source = "modular" if self.use_modular_collector else "direct"
RunSource == IF dashboard.use_modular_collector THEN "modular" ELSE "direct"

\* save_to_database up to `if not network_id: return False`
save_to_database_network(fault) ==
    /\ dashboard.pc = "save"
    /\ save_network_metrics(network_data(dashboard.data), RunSource, fault)
    /\ dashboard' =
          [dashboard EXCEPT
             !.network_id = ret'.id,
             !.attempted = {"network"},
             !.succeeded = IF ret'.ok THEN {"network"} ELSE {},
             !.faults = IF fault = "none" THEN {} ELSE {"network"},
             !.pc = IF ~Truthy(ret'.id) THEN "returned"
                    ELSE IF ~dashboard.profitability.empty THEN "profitability"
                    ELSE "snapshot"]
    /\ UNCHANGED <<runVars, collectVars, freeVars, timingVars>>

\* `if profitability:` and the save of the analysis, whose result is logged
save_to_database_profitability(fault) ==
    /\ dashboard.pc = "profitability"
    /\ save_profitability_analysis(dashboard.profitability.dict,
                                   Num(dashboard.network_id), fault)
    /\ dashboard' =
          [dashboard EXCEPT
             !.attempted = @ \cup {"profitability"},
             !.succeeded = IF ret'.ok THEN @ \cup {"profitability"} ELSE @,
             !.faults = IF fault = "none" THEN @ ELSE @ \cup {"profitability"},
             !.pc = "snapshot"]
    /\ UNCHANGED <<runVars, collectVars, freeVars, timingVars>>

\* the save of the snapshot, whose result is logged
save_to_database_snapshot(fault) ==
    /\ dashboard.pc = "snapshot"
    /\ save_comprehensive_snapshot(Blob(TRUE, TRUE, <<RunSource>>, dashboard.network_id),
                                   "dashboard_run", fault)
    /\ dashboard' =
          [dashboard EXCEPT
             !.attempted = @ \cup {"snapshot"},
             !.succeeded = IF ret'.ok THEN @ \cup {"snapshot"} ELSE @,
             !.faults = IF fault = "none" THEN @ ELSE @ \cup {"snapshot"},
             !.pc = "info"]
    /\ UNCHANGED <<runVars, collectVars, freeVars, timingVars>>

\* get_database_info for the log, then `return True`
save_to_database_return(connFails) ==
    /\ dashboard.pc = "info"
    /\ get_database_info(connFails)
    /\ dashboard' = [dashboard EXCEPT !.db_success = TRUE, !.pc = "returned"]
    /\ UNCHANGED <<runVars, collectVars, freeVars, timingVars>>

NextAnalysis ==
    \/ \E use_modular_collector \in BOOLEAN : BitcoinBlockchairDashboard(use_modular_collector)
    \/ \E modular_data, direct_data \in Answers : fetch_blockchain_data(modular_data, direct_data)
    \/ run_analysis
    \/ \E fault \in Faults : save_to_database_network(fault)
    \/ \E fault \in Faults : save_to_database_profitability(fault)
    \/ \E fault \in Faults : save_to_database_snapshot(fault)
    \/ \E connFails \in BOOLEAN : save_to_database_return(connFails)

SpecAnalysis == Init /\ [][NextAnalysis]_vars

(***************************************************************************)
(* Properties of the calculations under SpecAnalysis.                      *)
(***************************************************************************)
\* the run has calculated its metrics
Calculated == dashboard.pc \in {"save", "profitability", "snapshot", "info", "returned"}
                 /\ dashboard.path # "none"

\* the hash rate of the payload is a positive number that int() reads
Convertible(hashrate_24h) ==
    /\ hashrate_24h.k = "num"
    /\ Form(hashrate_24h) \in {"int", "float", "digits"}
    /\ hashrate_24h.v > 0

\* C21: for a positive hash rate that int() reads, a numeric price and a
\* numeric daily block count (144 when the payload has none), the metrics and
\* the profitability of a run equal the reference calculation:
\* daily_network_revenue = daily_blocks * 6.25 * price, hash_price =
\* daily_network_revenue / (EH/s * 1e6), daily_revenue = hash_price * 140,
\* daily_energy_cost = 3010 * 24 / 1000 * 0.08, daily_profit = daily_revenue -
\* daily_energy_cost, profit_margin = daily_profit / daily_revenue * 100 (0
\* when the revenue is 0); 500 EH/s, 65000 USD and 144 blocks give a revenue
\* of 58,500,000, a hash price of 0.117, a daily revenue of 16.38 and a profit.
C21_ReferenceCalculation ==
    LET data == dashboard.data
        price == DictGet(data.market_price_usd, Num(0))
        blocks == DictGet(data.blocks_24h, Num(144))
    IN  (Calculated /\ Convertible(data.hashrate_24h) /\ IsNumber(price) /\ IsNumber(blocks)) =>
        LET terahash == Fraction(Sci(data.hashrate_24h.v, Exponent(data.hashrate_24h) - 12))
            revenue == Mul(Mul(blocks, Rat(25, 4)), price)
            hash_price == Div(revenue, terahash)
            daily_revenue == Mul(hash_price, Num(140))
            daily_energy_cost == Rat(57792, 10000)
            daily_profit == Sub(daily_revenue, daily_energy_cost)
            margin == IF daily_revenue.v = 0 THEN Num(0)
                      ELSE Mul(Div(daily_profit, daily_revenue), Num(100))
            metrics == dashboard.mining_metrics
            profitability == dashboard.profitability.dict
        IN  /\ ~metrics.empty /\ ~dashboard.profitability.empty
            /\ metrics.daily_network_revenue_usd = revenue
            /\ metrics.hash_price_usd_per_th_per_day = hash_price
            /\ profitability.daily_revenue_usd = daily_revenue
            /\ profitability.daily_energy_cost_usd = daily_energy_cost
            /\ profitability.daily_profit_usd = daily_profit
            /\ profitability.profit_margin_percentage = margin
            /\ (/\ data.hashrate_24h = Encoded(5, 20, "int")
                /\ price = Num(65000) /\ blocks = Num(144)) =>
                   /\ revenue = Num(58500000)
                   /\ hash_price = Rat(117, 1000)
                   /\ daily_revenue = Rat(1638, 100)
                   /\ daily_profit.v > 0

\* the run on 500 EH/s, 65000 USD and 144 blocks has calculated 58,500,000,
\* 0.117, 16.38 and a profit of 10.6008
C21_Witness ==
    /\ Calculated
    /\ dashboard.data = Payload(Encoded(5, 20, "int"), Num(65000), Num(144))
    /\ dashboard.mining_metrics.daily_network_revenue_usd = Num(58500000)
    /\ dashboard.mining_metrics.hash_price_usd_per_th_per_day = Rat(117, 1000)
    /\ dashboard.profitability.dict.daily_revenue_usd = Rat(1638, 100)
    /\ dashboard.profitability.dict.daily_profit_usd = Rat(106008, 10000)

\* the hash rate of the payload is zero, missing, or nothing int() reads
Unusable(hashrate_24h) ==
    \/ hashrate_24h.k \in {"absent", "none", "str", "inf"}
    \/ hashrate_24h.k = "num" /\ hashrate_24h.v = 0
    \/ hashrate_24h.k = "num" /\ Form(hashrate_24h) \in {"decimal", "scientific"}

\* C22 as claimed: when the hash rate of the payload is zero, missing or not
\* convertible (and price and block count are numbers), the metrics hold a
\* hash price of 0, the profitability holds a daily revenue of 0, a margin of
\* 0, a non-positive profit and roi_days of +infinity, and its save, when the
\* store raises no error of its own, succeeds and stores the status LOSS.
C22_ZeroHashPrice ==
    LET data == dashboard.data
        profitability == dashboard.profitability.dict
    IN  (/\ Calculated
         /\ Unusable(data.hashrate_24h)
         /\ IsNumber(DictGet(data.market_price_usd, Num(0)))
         /\ IsNumber(DictGet(data.blocks_24h, Num(144)))) =>
            /\ ~dashboard.mining_metrics.empty
            /\ dashboard.mining_metrics.hash_price_usd_per_th_per_day = Num(0)
            /\ ~dashboard.profitability.empty
            /\ profitability.daily_revenue_usd = Num(0)
            /\ profitability.profit_margin_percentage = Num(0)
            /\ profitability.daily_profit_usd.v <= 0
            /\ profitability.roi_days = Inf
            /\ ("profitability" \in dashboard.attempted \ dashboard.faults) =>
                   /\ "profitability" \in dashboard.succeeded
                   /\ \E r \in profitability_analysis :
                          /\ r.network_metrics_id = Num(dashboard.network_id)
                          /\ r.status = "LOSS"
                          /\ r.roi_days = Inf
                          /\ r.daily_revenue_usd = Num(0)

\* C23 as claimed: for a raw hash rate H in every wire encoding (integer,
\* float, string of digits, decimal string, scientific-notation string), the
\* EH/s value the calculator works with and the EH/s value the store persists
\* for the same payload are both H / 1e18; 7.2e20 yields 720.
C23_SameExahash ==
    LET hashrate_24h == dashboard.data.hashrate_24h
        exahash == Sci(hashrate_24h.v, Exponent(hashrate_24h) - 18)
    IN  (/\ Calculated
         /\ hashrate_24h.k = "num" /\ hashrate_24h.v > 0
         /\ ~dashboard.mining_metrics.empty) =>
            /\ dashboard.mining_metrics.hashrate_ehs = exahash
            /\ "network" \in dashboard.succeeded =>
                   \E r \in bitcoin_network_metrics :
                       /\ r.id = dashboard.network_id
                       /\ r.hashrate_24h_ehs = exahash
                       /\ r.hashrate_24h_ehs = dashboard.mining_metrics.hashrate_ehs
            /\ (hashrate_24h.v = 72 /\ Exponent(hashrate_24h) = 20 - 1) =>
                   Fraction(dashboard.mining_metrics.hashrate_ehs) = Num(720)

\* C24 as claimed: when a store operation of a run has returned, with success
\* or with failure, it has closed every connection it opened.
C24_ConnectionsClosed == \A d \in Dashboards : run[d].unclosed = 0

(***************************************************************************)
(* The time a collection takes.  Every request of a source either answers  *)
(* or is cut off by aiohttp.ClientTimeout(total=source.timeout); the three *)
(* fetch tasks run concurrently, the requests of one task one after        *)
(* another.  Only the time spent awaiting requests is counted.             *)
(***************************************************************************)
\* collect_from_all_sources up to its await of asyncio.gather, on a collector
\* whose configuration gives every source a timeout
timed_collect_from_all_sources(timeout) ==
    /\ timing.pc = "none"
    /\ timing' = [NoTiming EXCEPT !.pc = "collecting", !.timeout = timeout]
    /\ UNCHANGED <<storeVars, runVars, collectVars, freeVars, analysisVars>>

\* where a fetch task stands after a request: fetch_blockchair_data sends its
\* second request only when the first was answered with a "data" key, the
\* other two always send both
AfterRequest(name, stage, answered) ==
    IF stage = "second" \/ (name = "blockchair" /\ ~answered) THEN "done" ELSE "second"

\* one request of a fetch task, awaited to its end: it is answered after
\* `duration`, or cut off when the source's timeout has passed
timed_make_api_request(name, duration, answered) ==
    /\ timing.pc = "collecting"
    /\ timing.stage[name] # "done"
    /\ duration \in 0..timing.timeout[name]
    /\ duration = timing.timeout[name] => ~answered
    /\ timing' = [timing EXCEPT
                    !.stage[name] = AfterRequest(name, @, answered),
                    !.elapsed[name] = @ + duration]
    /\ UNCHANGED <<storeVars, runVars, collectVars, freeVars, analysisVars>>

RECURSIVE Largest(_)
Largest(S) ==
    IF S = {} THEN 0
    ELSE LET x == CHOOSE x \in S : TRUE
             rest == Largest(S \ {x})
         IN IF x > rest THEN x ELSE rest

\* asyncio.gather returns when the last of the concurrent tasks has finished
timed_gather ==
    /\ timing.pc = "collecting"
    /\ \A name \in Tasks : timing.stage[name] = "done"
    /\ timing' = [timing EXCEPT
                    !.pc = "returned",
                    !.returned_after = Largest({timing.elapsed[name] : name \in Tasks})]
    /\ UNCHANGED <<storeVars, runVars, collectVars, freeVars, analysisVars>>

NextTiming ==
    \/ \E timeout \in [Tasks -> Timeouts] : timed_collect_from_all_sources(timeout)
    \/ \E name \in Tasks, duration \in 0..Largest(Timeouts), answered \in BOOLEAN :
          timed_make_api_request(name, duration, answered)
    \/ timed_gather

SpecTiming == Init /\ [][NextTiming]_vars

\* C26 as claimed: a collection returns no later than the largest configured
\* per-source timeout after it started.
C26_ReturnsWithinLargestTimeout ==
    timing.pc = "returned" =>
        timing.returned_after <= Largest({timing.timeout[name] : name \in Tasks})

\* a list of source names is in the order of the tasks dict, without repeats
InTaskOrder(list) ==
    \A i, j \in DOMAIN list : i < j => IndexOf(list[i]) < IndexOf(list[j])

\* C25 as claimed: the bundle is written in one step, by collect_from_all_sources
\* once every fetch task has finished, and whatever order the tasks finished in
\* each source's entry holds that source's own result: null exactly when its
\* task returned nothing, else the task's payload validated under the source's
\* name; every source is in exactly one of the two lists, both in the order of
\* the tasks dict.
C25_OwnResultStored ==
    [][collected_data' # collected_data /\ collected_data'.returned =>
        /\ \A name \in Tasks : task[name].pc = "done"
        /\ task' = task
        /\ \A name \in Tasks :
              LET entry == collected_data'.sources[name]
                  result == task[name].result
              IN /\ entry.null = result.null
                 /\ ~entry.null =>
                       /\ entry.data = result
                       /\ entry.validation.source = name
                       /\ entry.data_hash = generate_data_hash(result)
                 /\ Has(collected_data'.metadata.success_sources, name)
                       # Has(collected_data'.metadata.failed_sources, name)
                 /\ Has(collected_data'.metadata.success_sources, name)
                       => ~entry.null /\ entry.validation.is_valid
        /\ InTaskOrder(collected_data'.metadata.success_sources)
        /\ InTaskOrder(collected_data'.metadata.failed_sources)]_vars

\* a collection whose three tasks all returned a payload, no two the same, and
\* whose bundle has been written
C25_Witness ==
    /\ phase = "done"
    /\ collected_data.returned
    /\ \A name \in Tasks : ~task[name].result.null
    /\ \A a, b \in Tasks : a # b => task[a].result # task[b].result
    /\ \A name \in Tasks : collected_data.sources[name].data = task[name].result

\* the records of the three tables
AllRows == [t \in Tables |-> Rows(t)]

\* the table a save writes to
OwnTable(op) ==
    CASE op = "save_network_metrics" -> "bitcoin_network_metrics"
      [] op = "save_profitability_analysis" -> "profitability_analysis"
      [] op = "save_comprehensive_snapshot" -> "bitcoin_snapshots"

\* a step of a store operation: every operation leaves the clock alone, and
\* the clock's own step leaves the store alone
StoreOperation == now' = now /\ ret' # ret

\* C27 as claimed: records are immutable after insert.  Every store operation
\* other than clear_database keeps every record of the three tables as it is;
\* a successful save adds exactly one record to its own table and leaves the
\* other two alone; a failed save and every read change no table; a record
\* disappears only in a step of clear_database.
C27_ImmutableRecords ==
    [][LET before == AllRows
           after == [t \in Tables |-> Rows(t)']
       IN /\ (\E t \in Tables : before[t] \ after[t] # {}) => ret'.op = "clear_database"
          /\ ret'.op # "clear_database" => \A t \in Tables : before[t] \subseteq after[t]
          /\ StoreOperation /\ ret'.op \in SaveOps /\ ret'.ok =>
                /\ \E r \in after[OwnTable(ret'.op)] :
                      /\ r \notin before[OwnTable(ret'.op)]
                      /\ after[OwnTable(ret'.op)] = before[OwnTable(ret'.op)] \cup {r}
                /\ \A t \in Tables \ {OwnTable(ret'.op)} : after[t] = before[t]
          /\ ret'.op \in SaveOps /\ ~ret'.ok => after = before
          /\ ret'.op \notin SaveOps \cup {"clear_database"} => after = before]_vars

\* a second record has just been added to a table whose earlier record is
\* still there, next to a record of another table
C27_Witness ==
    /\ ret.op = "save_network_metrics" /\ ret.ok /\ ret.id = 2
    /\ Cardinality(bitcoin_network_metrics) = 2
    /\ profitability_analysis # {}
    /\ \A id \in 1..2 : \E r \in bitcoin_network_metrics : r.id = id

\* C28 as claimed: the data_source tag of the network-metrics record a run
\* has written, and of its snapshot, names the path the run's data came from:
\* "modular" only when the modular collector returned the data, "direct" when
\* the direct request did, also after the modular collector returned nothing.
C28_TagNamesPath ==
    /\ "network" \in dashboard.succeeded =>
          \A r \in bitcoin_network_metrics :
             r.id = dashboard.network_id => r.data_source = dashboard.path
    /\ "snapshot" \in dashboard.succeeded =>
          \A r \in bitcoin_snapshots :
             r.snapshot_data.network_metrics_id = dashboard.network_id =>
                r.data_source = dashboard.path

\* C29 as claimed: save_to_database returns True only when every write it
\* attempted in the run succeeded: the network metrics, the profitability
\* analysis when there is one, and the snapshot.
C29_TrueOnlyIfAllWritten ==
    dashboard.db_success =>
        /\ dashboard.attempted = dashboard.succeeded
        /\ {"network", "snapshot"} \subseteq dashboard.attempted
        /\ ~dashboard.profitability.empty => "profitability" \in dashboard.attempted

\* the keys save_to_database reads from the payload into network_data, which
\* save_network_metrics reads into the columns of the record
NetworkColumns ==
    {"blocks_24h", "transactions_24h", "hashrate_24h", "difficulty", "market_price_usd",
     "mempool_transactions", "average_transaction_fee_usd_24h", "nodes", "blockchain_size"}

\* the columns data.get(key, 0) fills with a value of the payload rather than
\* with the default 0
FilledColumns(data) == {key \in NetworkColumns : key \in data.keys \ data.nulls}

\* C30 as claimed: on the modular path every column of the network-metrics
\* record whose field the primary source's payload holds with a value is
\* filled with that value, none with the default 0.
C30_ColumnsFromPayload ==
    primary_metrics.called /\ collected_data.returned =>
        FilledColumns(collected_data.primary_data) \subseteq
            FilledColumns(fetch_blockchain_data_modular)


====
